---- MODULE Spec2Model ----
(***************************************************************************)
(* A model of the job-agent evidence pipeline.                             *)
(*                                                                         *)
(*   - text helpers: slugify (core/ids.py), extract_domain and             *)
(*     make_company_id (parsing/normalizers.py), over strings represented  *)
(*     as sequences of one-character strings;                              *)
(*   - the parse stage: parse_and_normalize (parsing/parser.py) looping    *)
(*     over snapshots and calling extract_company_profile (parsing/llm.py);*)
(*   - the fetch client: HttpClient.fetch with the tenacity retry loop     *)
(*     of _fetch_with_retry (collectors/http_client.py).                   *)
(*                                                                         *)
(* Numbers with a fractional part (confidence) are kept in hundredths.     *)
(***************************************************************************)
EXTENDS Integers, Sequences, FiniteSets, TLC

VARIABLES
    \* ---- parse stage (parse_and_normalize) ----
    snapshots,      \* the list of RawSnapshot handed to the stage
    pidx,           \* index of the next snapshot the for-loop will take
    ppc,            \* "start" | "loop" | "done" | "raised"
    summary,        \* ParseSummary: counters, profiles, logs
    metrics,        \* ctx.metrics: num_parse_success, num_parse_failed
    stage_logs,     \* ctx.stage_logs
    parseStore,     \* what save_profiles / save_parse_log have written
    llmCalls,       \* snapshot_ids for which litellm.completion was invoked
    cur,            \* the environment's answers for the snapshot just processed
    \* ---- one loop iteration on one snapshot, as a function of its inputs ----
    item,           \* the inputs of the iteration
    itemOut,        \* its outputs
    \* ---- HttpClient.fetch ----
    client,         \* the HttpClient: max_retries, _client initialised or not
    fpc,            \* "idle" | "try" | "backoff" | "done" | "raised"
    attempts,       \* outcomes of the HTTP attempts made so far, in order
    waits,          \* delays slept between attempts, in order
    acquires,       \* number of RateLimiter.acquire() calls of this fetch
    fetchResult,    \* the FetchResult returned, or NoResult
    \* ---- RateLimiter.acquire, called by coroutines of one event loop ----
    clock,          \* time.monotonic(), in ticks
    limiter,        \* the RateLimiter: rate, _last_request
    racq,           \* per coroutine: where it is in acquire(), and when its sleep ends
    permits,        \* the times at which the acquire() calls returned, in order
    overlapped,     \* an acquire() was entered while another one was sleeping
    \* ---- run_checkpoint_a_async / run_checkpoint_b_async with plan and collect ----
    checkpoint,     \* "A" | "B": which orchestrator runs
    rpc,            \* where the orchestrator is
    run,            \* the RunContext's status and completed_at, NoRun before boot returns
    sources,        \* ctx.sources.sources
    tasks,          \* the FetchTasks plan_sources returned
    cpc,            \* collect: "idle" | "start" | "loop" | "done" | "raised"
    cidx,           \* index of the next task the for-loop of collect will take
    collected,      \* collect's local list snapshots
    collectErrors,  \* collect's local list errors
    snapStore,      \* the snapshots whose metadata FileSnapshotStore.save has written
    fetched,        \* the FetchResult client.fetch returned for each task so far
    faults,         \* the environment failures that have happened in this run
    \* ---- calls of start_stage / complete_stage on one RunContext ----
    stageCall,      \* the last call: its name, its arguments, the context before it
    \* ---- normalize_url as a function of its input ----
    upc,            \* "idle" | "call" | "done"
    rawUrl,         \* the URL handed to normalize_url
    normUrl,        \* what normalize_url returned
    \* ---- FileSnapshotStore.save called by several callers on one base_dir ----
    fs,             \* the files under base_dir: path -> what was written
    savers,         \* per caller: its snapshot, its content, where it is in save()
    returned,       \* per caller: the RawSnapshot save() returned
    \* ---- the HttpClient of the collect stage ----
    collectClient,  \* the client collect has built, NoClient before
    fetchCalls      \* the client.fetch calls of collect: the URL and the client's parameters

parseVars == <<snapshots, pidx, ppc, summary, metrics, stage_logs, parseStore, llmCalls, cur>>
itemVars  == <<item, itemOut>>
fetchVars == <<client, fpc, attempts, waits, acquires, fetchResult>>
rateVars  == <<clock, limiter, racq, permits, overlapped>>
runVars   == <<checkpoint, rpc, run, sources, tasks, cpc, cidx, collected, collectErrors,
               snapStore, fetched, faults>>
stageVars == <<stageCall>>
urlVars   == <<upc, rawUrl, normUrl>>
storeVars == <<fs, savers, returned>>
clientVars == <<collectClient, fetchCalls>>
apiVars   == <<stageVars, urlVars, storeVars, clientVars>>

vars      == <<parseVars, itemVars, fetchVars, rateVars, runVars, apiVars>>

-----------------------------------------------------------------------------
(* Strings                                                                 *)

UpperCase ==
    <<"A","B","C","D","E","F","G","H","I","J","K","L","M",
      "N","O","P","Q","R","S","T","U","V","W","X","Y","Z">>
LowerCase ==
    <<"a","b","c","d","e","f","g","h","i","j","k","l","m",
      "n","o","p","q","r","s","t","u","v","w","x","y","z">>
Digits == {"0","1","2","3","4","5","6","7","8","9"}
Range(s) == {s[i] : i \in DOMAIN s}

\* str.lower() on one character
LowerChar(c) ==
    IF c \in Range(UpperCase)
    THEN LowerCase[CHOOSE i \in DOMAIN UpperCase : UpperCase[i] = c]
    ELSE c
\* str.lower()
Lower(s) == [i \in DOMAIN s |-> LowerChar(s[i])]

\* whitespace: what str.strip() drops and the regex class \s matches
Whitespace == {" ", "\t", "\n"}
IsSpace(c) == c \in Whitespace
\* the regex class \w
IsWord(c) == c \in Range(UpperCase) \cup Range(LowerCase) \cup Digits \cup {"_"}

\* str.strip(chars): drop the leading and trailing characters that are in chars
Strip(s, chars) ==
    LET keep == {i \in DOMAIN s : s[i] \notin chars}
    IN  IF keep = {} THEN <<>>
        ELSE SubSeq(s, CHOOSE i \in keep : \A j \in keep : i <= j,
                       CHOOSE i \in keep : \A j \in keep : i >= j)

IsHyphen(c) == c = "-"
IsHyphenOrSpace(c) == IsHyphen(c) \/ IsSpace(c)
IsSlugChar(c) == IsWord(c) \/ IsSpace(c) \/ IsHyphen(c)

\* re.sub(r"[-\s]+", "-", s): every maximal run of hyphens/whitespace becomes one "-"
CollapseRuns(s) ==
    LET F[i \in 0..Len(s)] ==
            IF i = 0 THEN <<>>
            ELSE IF IsHyphenOrSpace(s[i])
                 THEN IF i > 1 /\ IsHyphenOrSpace(s[i-1])
                      THEN F[i-1] ELSE Append(F[i-1], "-")
                 ELSE Append(F[i-1], s[i])
    IN  F[Len(s)]

\* core/ids.py slugify
slugify(text) ==
    LET t1 == Strip(Lower(text), Whitespace)
        t2 == SelectSeq(t1, IsSlugChar)
        t3 == CollapseRuns(t2)
    IN  Strip(t3, {"-"})

\* s.startswith(p)
StartsWith(s, p) == Len(s) >= Len(p) /\ SubSeq(s, 1, Len(p)) = p

\* urllib.parse.urlparse(url).netloc: what lies between "//" after the scheme and the
\* next "/", "?" or "#"
IsSchemeChar(c) == c \in Range(UpperCase) \cup Range(LowerCase) \cup Digits \cup {"+", "-", "."}
SchemeEnd(url) ==
    LET colons == {i \in DOMAIN url : url[i] = ":"}
        first  == CHOOSE i \in colons : \A j \in colons : i <= j
    IN  IF colons # {} /\ first > 1
           /\ url[1] \in Range(UpperCase) \cup Range(LowerCase)
           /\ \A j \in 1..(first - 1) : IsSchemeChar(url[j])
        THEN first ELSE 0
netloc(url) ==
    LET rest  == SubSeq(url, SchemeEnd(url) + 1, Len(url))
        body  == SubSeq(rest, 3, Len(rest))
        stops == {i \in DOMAIN body : body[i] \in {"/", "?", "#"}}
        stop  == IF stops = {} THEN Len(body) + 1
                 ELSE CHOOSE i \in stops : \A j \in stops : i <= j
    IN  IF StartsWith(rest, <<"/", "/">>) THEN SubSeq(body, 1, stop - 1) ELSE <<>>

WWW == <<"w", "w", "w", ".">>

\* parsing/normalizers.py extract_domain
extract_domain(url) ==
    LET host == Lower(netloc(url))
    IN  IF StartsWith(host, WWW) THEN SubSeq(host, 5, Len(host)) ELSE host

\* parsing/normalizers.py make_company_id
make_company_id(name, domain) == slugify(name) \o <<"-">> \o slugify(domain)

\* str.rstrip(chars)
RStrip(s, chars) ==
    LET keep == {i \in DOMAIN s : s[i] \notin chars}
    IN  IF keep = {} THEN <<>>
        ELSE SubSeq(s, 1, CHOOSE i \in keep : \A j \in keep : i >= j)

\* the printable ASCII characters in code order, from code 32 (the grave accent, code
\* 96, by its name)
Ascii ==
    <<" ", "!", "\"", "#", "$", "%", "&", "'", "(", ")", "*", "+", ",", "-", ".", "/",
      "0", "1", "2", "3", "4", "5", "6", "7", "8", "9", ":", ";", "<", "=", ">", "?",
      "@", "A", "B", "C", "D", "E", "F", "G", "H", "I", "J", "K", "L", "M", "N", "O",
      "P", "Q", "R", "S", "T", "U", "V", "W", "X", "Y", "Z", "[", "\\", "]", "^", "_",
      "GRAVE", "a", "b", "c", "d", "e", "f", "g", "h", "i", "j", "k", "l", "m", "n", "o",
      "p", "q", "r", "s", "t", "u", "v", "w", "x", "y", "z", "{", "|", "}", "~">>
\* ord(c)
Ord(c) == 31 + CHOOSE i \in DOMAIN Ascii : Ascii[i] = c

\* comparison of str values: by the code of the first character that differs
StrLe(a, b) ==
    LET diff == {i \in DOMAIN a \cap DOMAIN b : a[i] # b[i]}
        d    == CHOOSE i \in diff : \A j \in diff : i <= j
    IN  IF diff = {} THEN Len(a) <= Len(b) ELSE Ord(a[d]) < Ord(b[d])

\* the position of the first character of s that is in chars, Len(s) + 1 if none
FirstIn(s, chars) ==
    LET hits == {i \in DOMAIN s : s[i] \in chars}
    IN  IF hits = {} THEN Len(s) + 1 ELSE CHOOSE i \in hits : \A j \in hits : i <= j
\* s.split(c, 1)[0], and s.split(c, 1)[1] or "" when c is not in s
Before(s, chars) == SubSeq(s, 1, FirstIn(s, chars) - 1)
After(s, chars) == SubSeq(s, FirstIn(s, chars) + 1, Len(s))

\* s.split(sep)
RECURSIVE Split(_, _)
Split(s, sep) ==
    IF sep \notin Range(s) THEN <<s>>
    ELSE <<Before(s, {sep})>> \o Split(After(s, {sep}), sep)

\* urllib.parse.urlsplit on a URL with a scheme and "//": what follows the netloc,
\* then the fragment split off at the first "#" and the query at the first "?"
AfterNetloc(url) == SubSeq(url, SchemeEnd(url) + 2 + Len(netloc(url)) + 1, Len(url))
UrlPath(url) == Before(AfterNetloc(url), {"?", "#"})
UrlQuery(url) == After(Before(AfterNetloc(url), {"#"}), {"?"})

\* urllib.parse.unquote on escapes of printable ASCII characters: %XX becomes the
\* character of code XX, anything else stays
HexDigits == <<"0", "1", "2", "3", "4", "5", "6", "7", "8", "9", "A", "B", "C", "D", "E", "F">>
HexLower == <<"0", "1", "2", "3", "4", "5", "6", "7", "8", "9", "a", "b", "c", "d", "e", "f">>
IsHex(c) == c \in Range(HexDigits) \cup Range(HexLower)
HexValue(c) == (CHOOSE i \in DOMAIN HexDigits : HexDigits[i] = c \/ HexLower[i] = c) - 1
IsEscape(s) ==
    /\ Len(s) >= 3 /\ s[1] = "%" /\ IsHex(s[2]) /\ IsHex(s[3])
    /\ 16 * HexValue(s[2]) + HexValue(s[3]) \in 32..126
RECURSIVE unquote(_)
unquote(s) ==
    IF s = <<>> THEN <<>>
    ELSE IF IsEscape(s)
    THEN <<Ascii[16 * HexValue(s[2]) + HexValue(s[3]) - 31]>> \o unquote(SubSeq(s, 4, Len(s)))
    ELSE <<s[1]>> \o unquote(Tail(s))

\* s.replace("+", " ")
PlusToSpace(s) == [i \in DOMAIN s |-> IF s[i] = "+" THEN " " ELSE s[i]]

\* urllib.parse.parse_qsl(qs, keep_blank_values=True): the fields between "&", empty
\* ones dropped; each split at its first "=", a missing value being ""; in name and
\* value "+" becomes a space and the escapes are decoded
QsField(field) ==
    <<unquote(PlusToSpace(Before(field, {"="}))), unquote(PlusToSpace(After(field, {"="})))>>
parse_qsl(qs) ==
    LET fields == SelectSeq(Split(qs, "&"), LAMBDA f : f # <<>>)
    IN  [i \in DOMAIN fields |-> QsField(fields[i])]

\* ids.py lines 33-45
TRACKING_PARAMS ==
    {<<"u","t","m","_","s","o","u","r","c","e">>, <<"u","t","m","_","m","e","d","i","u","m">>,
     <<"u","t","m","_","c","a","m","p","a","i","g","n">>, <<"u","t","m","_","t","e","r","m">>,
     <<"u","t","m","_","c","o","n","t","e","n","t">>, <<"f","b","c","l","i","d">>,
     <<"g","c","l","i","d">>, <<"r","e","f">>, <<"s","o","u","r","c","e">>,
     <<"m","c","_","c","i","d">>, <<"m","c","_","e","i","d">>}

\* ids.py lines 63-66: the names parse_qs found, without the tracking parameters
FilteredNames(pairs) ==
    {pairs[i][1] : i \in {j \in DOMAIN pairs : Lower(pairs[j][1]) \notin TRACKING_PARAMS}}
\* v[0] of parse_qs: the first value given for the name
FirstValue(pairs, name) ==
    pairs[CHOOSE i \in DOMAIN pairs :
              pairs[i][1] = name /\ \A j \in 1..(i - 1) : pairs[j][1] # name][2]
\* sorted(filtered_params.items())
RECURSIVE SortedNames(_)
SortedNames(names) ==
    IF names = {} THEN <<>>
    ELSE LET least == CHOOSE n \in names : \A m \in names : StrLe(n, m)
         IN  <<least>> \o SortedNames(names \ {least})
\* ids.py lines 67-69: "&".join(f"{k}={v[0]}" ...)
RECURSIVE JoinQuery(_, _)
JoinQuery(names, pairs) ==
    IF names = <<>> THEN <<>>
    ELSE Head(names) \o <<"=">> \o FirstValue(pairs, Head(names))
         \o (IF Len(names) > 1 THEN <<"&">> ELSE <<>>) \o JoinQuery(Tail(names), pairs)
SortedQuery(pairs) == JoinQuery(SortedNames(FilteredNames(pairs)), pairs)

\* ids.py lines 70-73: the trailing slashes of a path other than "/" are removed
NormalizePath(path) ==
    IF path # <<"/">> /\ path # <<>> /\ path[Len(path)] = "/"
    THEN RStrip(path, {"/"}) ELSE path

\* urllib.parse.urlunparse((scheme, host, path, "", query, ""))
Rooted(path) == IF path # <<>> /\ path[1] # "/" THEN <<"/">> \o path ELSE path
WithNetloc(host, path) == IF host # <<>> THEN <<"/", "/">> \o host \o Rooted(path) ELSE path
WithScheme(scheme, rest) == IF scheme # <<>> THEN scheme \o <<":">> \o rest ELSE rest
WithQuery(rest, query) == IF query # <<>> THEN rest \o <<"?">> \o query ELSE rest
urlunparse(scheme, host, path, query) ==
    WithQuery(WithScheme(scheme, WithNetloc(host, path)), query)

\* core/ids.py normalize_url, on URLs that have a scheme and "//" and no ";": scheme
\* and netloc lower-cased, the tracking parameters removed from the query and the
\* others sorted by name with their first value, the trailing slashes of a path
\* other than "/" removed, the fragment dropped, and the parts joined by urlunparse
normalize_url(url) ==
    urlunparse(Lower(SubSeq(url, 1, SchemeEnd(url) - 1)),
               Lower(netloc(url)),
               NormalizePath(UrlPath(url)),
               SortedQuery(parse_qsl(UrlQuery(url))))

-----------------------------------------------------------------------------
(* Data of the parse stage                                                 *)

MaxSnapshots == 2

Careers == <<"/","c","a","r","e","e","r","s">>
UrlAcme == <<"h","t","t","p","s",":","/","/","a","c","m","e",".","c","o","m","/","c","a","r","e","e","r","s">>
\* the same page as UrlAcme, as a sources file may spell it
UrlAcmeRaw == <<"H","T","T","P","S",":","/","/","A","c","m","e",".","c","o","m","/","c","a","r","e","e","r","s","/">>
UrlWww == <<"h","t","t","p","s",":","/","/","w","w","w",".","a","c","m","e",".","c","o","m","/">>
UrlWwwPort == <<"h","t","t","p","s",":","/","/","w","w","w",".","a","c","m","e",".","c","o","m",":","8","0","8","0","/","j","o","b","s">>
AcmeInc == <<"A","c","m","e"," ","I","n","c">>
Acme == <<"A","c","m","e">>
UnknownName == <<"U","n","k","n","o","w","n">>
UnknownLower == <<"u","n","k","n","o","w","n">>
ExtractionIncomplete == <<"E","x","t","r","a","c","t","i","o","n"," ","i","n","c","o","m","p","l","e","t","e">>
EvilId == <<"e","v","i","l","-","i","d">>
EvilCom == <<"e","v","i","l",".","e","x","a","m","p","l","e">>
EvilUrl == <<"h","t","t","p",":","/","/","e","v","i","l",".","e","x","a","m","p","l","e","/">>
SomeSummary == <<"W","e"," ","b","u","i","l","d">>

\* parsing/models.py ParseStatus
SUCCESS == "success"
PARTIAL == "partial"
FAILED  == "failed"
SKIPPED == "skipped"

\* A float: NaN, or a value in hundredths
Num(v) == [nan |-> FALSE, v |-> v]
NaN    == [nan |-> TRUE, v |-> 0]
\* Python's a < b on floats: false whenever either side is NaN
PyLt(a, b) == ~a.nan /\ ~b.nan /\ a.v < b.v
\* Python's a <= b on floats
PyLe(a, b) == ~a.nan /\ ~b.nan /\ a.v <= b.v
\* Python's builtin min(a, b): the first argument unless the second is smaller
PyMin(a, b) == IF PyLt(b, a) THEN b ELSE a

\* the literal 0.3 of the salvage path, in hundredths
SalvageCap == 30

\* A value of a key of the JSON object the model returned: absent, a string, a
\* number, a list, or a value of a type the schema field rejects (k = "bad")
JAbsent == [k |-> "absent"]
JBad    == [k |-> "bad"]
JList   == [k |-> "list"]
JStr(s) == [k |-> "str", s |-> s]
JNum(n) == [k |-> "num", n |-> n]

ProfileKeys == {"company_id", "name", "domain", "website", "summary", "confidence", "tags"}
\* parsing/models.py CompanyProfile: the fields without a default
RequiredKeys == {"company_id", "name", "domain", "website", "summary"}
EmptyObject == [f \in ProfileKeys |-> JAbsent]

\* The text of the completion: empty, text that is not JSON, a JSON array, or a JSON
\* object with the keys of obj
RawEmpty   == [kind |-> "empty"]
RawGarbage == [kind |-> "garbage"]
RawArray   == [kind |-> "array"]
RawObject(o) == [kind |-> "object", obj |-> o]

NoProfile == [none |-> TRUE]
NoHint == [k |-> "none"]
Hint(s) == [k |-> "str", s |-> s]

LlmModel == "llm_model"

\* parsing/adapters/__init__.py ADAPTER_REGISTRY
ADAPTER_REGISTRY == {"careers_page"}

\* parsing/adapters/__init__.py get_adapter, falling back to the careers adapter
get_adapter_with_default(source_type) == TRUE

\* parsing/adapters/__init__.py get_adapter: TRUE when an adapter is returned
get_adapter(source_type) == source_type \in ADAPTER_REGISTRY

-----------------------------------------------------------------------------
(* parsing/llm.py                                                          *)

\* json.loads(raw_text): raises JSONDecodeError on empty or non-JSON text
JsonDecodes(raw) == raw.kind \in {"array", "object"}

\* CompanyProfile.model_validate(data) succeeds: data is an object, every required
\* key holds a string, confidence (if given) a float, tags (if given) a list
Validates(raw, obj) ==
    /\ raw.kind = "object"
    /\ \A f \in RequiredKeys : obj[f].k = "str"
    /\ obj["confidence"].k \in {"absent", "num"}
    /\ obj["tags"].k \in {"absent", "list"}

\* The CompanyProfile model_validate builds from a valid object
ProfileOf(obj, raw) ==
    [company_id |-> obj["company_id"].s,
     name       |-> obj["name"].s,
     domain     |-> obj["domain"].s,
     website    |-> obj["website"].s,
     summary    |-> obj["summary"].s,
     confidence |-> IF obj["confidence"].k = "num" THEN obj["confidence"].n ELSE Num(0),
     tags       |-> obj["tags"].k,
     raw_llm_response |-> raw]

\* dict.setdefault(key, value)
SetDefault(obj, key, value) ==
    IF obj[key].k = "absent" THEN [obj EXCEPT ![key] = value] ELSE obj

\* content_block.company_hint or "Unknown"
HintOr(hint, default) == IF hint.k = "str" /\ hint.s # <<>> THEN hint.s ELSE default

\* llm.py lines 147-151: the fallbacks of the salvage attempt
SalvageDefaults(obj, hint, url) ==
    LET d1 == SetDefault(obj, "company_id", JStr(UnknownLower))
        d2 == SetDefault(d1, "name", JStr(HintOr(hint, UnknownName)))
        d3 == SetDefault(d2, "domain", JStr(UnknownLower))
        d4 == SetDefault(d3, "website", JStr(url))
    IN  SetDefault(d4, "summary", JStr(ExtractionIncomplete))

\* llm.py lines 129-130: json.loads and model_validate both pass
StrictOk(raw) == JsonDecodes(raw) /\ Validates(raw, raw.obj)

\* llm.py lines 145-152: json.loads passes again, the setdefault calls work (the
\* decoded value is an object) and model_validate passes on the completed object
SalvageOk(raw, hint, url) ==
    JsonDecodes(raw) /\ raw.kind = "object" /\ Validates(raw, SalvageDefaults(raw.obj, hint, url))

NewLog(snapshot_id, source_id, status, warnings, errors, model, tokens) ==
    [snapshot_id |-> snapshot_id, source_id |-> source_id, status |-> status,
     warnings |-> warnings, errors |-> errors, llm_model |-> model,
     llm_tokens_used |-> tokens]

\* profile.confidence = min(profile.confidence, 0.3)
CapConfidence(c) == PyMin(c, Num(SalvageCap))

\* llm.py line 111, without the exception's text
CallFailedWithoutMessage(e) == [msg |-> "LLM call failed", code |-> 0]

\* llm.py line 111: f"LLM call failed: {e}"
CallFailed(e) == [msg |-> "LLM call failed: " \o e, code |-> 0]

\* parsing/llm.py extract_company_profile. llm is what litellm.completion does:
\* llm.exc (it raises, str(e) being llm.message), or llm.raw (the message content)
\* and llm.tokens (the usage it reports, 0 when it reports none)
extract_company_profile(hint, model, snapshot_id, source_id, url, llm) ==
    LET log0 == NewLog(snapshot_id, source_id, FAILED, <<>>, <<>>, model, 0)
        raw  == llm.raw
        log1 == [log0 EXCEPT !.llm_tokens_used = llm.tokens]
        \* the except branch of the strict attempt
        log2 == [log1 EXCEPT !.status = IF raw.kind # "empty" THEN PARTIAL ELSE FAILED,
                             !.errors = Append(@, [msg |-> "Validation failed", code |-> 0]),
                             !.warnings = Append(@, [msg |-> "Raw LLM output stored for debugging", code |-> 0])]
        data == SalvageDefaults(raw.obj, hint, url)
        salvaged == ProfileOf(data, raw)
    IN  IF llm.exc
        THEN [profile |-> NoProfile,
              log |-> [log0 EXCEPT !.errors = Append(@, CallFailed(llm.message))]]
        ELSE IF StrictOk(raw)
        THEN [profile |-> ProfileOf(raw.obj, raw),
              log |-> [log1 EXCEPT !.status = SUCCESS]]
        ELSE IF SalvageOk(raw, hint, url)
        THEN [profile |-> [salvaged EXCEPT !.confidence = CapConfidence(@)],
              log |-> [log2 EXCEPT !.status = PARTIAL]]
        ELSE [profile |-> NoProfile, log |-> log2]

-----------------------------------------------------------------------------
(* core/context.py: stage logs                                             *)

\* RunContext.start_stage
start_stage(logs, stage, items_in) ==
    Append(logs, [stage |-> stage, open |-> TRUE, status |-> "running",
                  items_in |-> items_in, items_out |-> 0, errors |-> <<>>])

\* RunContext.complete_stage without the test on completed_at: the first log of that
\* name is closed, open or not
complete_stage_any(logs, stage, items_out, errors, status) ==
    LET named == {i \in DOMAIN logs : logs[i].stage = stage}
        i0    == CHOOSE i \in named : \A j \in named : i <= j
    IN  IF named = {} THEN logs
        ELSE [logs EXCEPT ![i0] = [@ EXCEPT !.open = FALSE,
                                            !.items_out = items_out,
                                            !.status = status,
                                            !.errors = IF errors # <<>> THEN errors ELSE @]]

\* RunContext.complete_stage: closes the first open log of that name in list order
complete_stage(logs, stage, items_out, errors, status) ==
    LET open == {i \in DOMAIN logs : logs[i].stage = stage /\ logs[i].open}
        i0   == CHOOSE i \in open : \A j \in open : i <= j
    IN  IF open = {} THEN logs
        ELSE [logs EXCEPT ![i0] = [@ EXCEPT !.open = FALSE,
                                            !.items_out = items_out,
                                            !.status = status,
                                            !.errors = IF errors # <<>> THEN errors ELSE @]]

-----------------------------------------------------------------------------
(* parsing/parser.py parse_and_normalize                                   *)

\* a warning or error text that leaves out the number it should carry
WarnWithoutCode(msg, code) == [msg |-> msg, code |-> 0]

\* a warning or error text: its wording and the number formatted into it
Warn(msg, code) == [msg |-> msg, code |-> code]

\* What the environment answers while one snapshot is processed: whether the store
\* still has the content, whether the adapter returns or raises, the company hint of
\* the source's metadata, and what the completion call does
Env(content, adapter_ok, hint, llm) ==
    [content |-> content, adapter_ok |-> adapter_ok, hint |-> hint, llm |-> llm]
Llm(exc, raw, tokens) ==
    [exc |-> exc, raw |-> raw, tokens |-> tokens,
     message |-> IF exc THEN "timed out" ELSE ""]
\* a completion call that raises an exception with that text
Raising(message) == [Llm(TRUE, RawEmpty, 0) EXCEPT !.message = message]
NoEnv == Env(TRUE, TRUE, NoHint, Llm(TRUE, RawEmpty, 0))
\* before the first iteration
NoCur == [none |-> TRUE]

\* parser.py lines 118-123: the deterministic fields
PostProcess(profile, canonical_url) ==
    IF profile = NoProfile THEN NoProfile
    ELSE LET domain == extract_domain(canonical_url)
         IN  [profile EXCEPT !.domain = domain,
                             !.website = canonical_url,
                             !.company_id = make_company_id(profile.name, domain)]

\* parser.py lines 83-92 with the log marked SKIPPED instead of FAILED
ContentMissingSkipped(s) ==
    [log |-> NewLog(s.snapshot_id, s.source_id, SKIPPED, <<>>,
                    <<Warn("Could not load snapshot content", 0)>>, "none", 0),
     profile |-> NoProfile, called |-> FALSE, early |-> TRUE, raised |-> FALSE]

\* parser.py lines 83-92: get_content returned None
ContentMissing(s) ==
    [log |-> NewLog(s.snapshot_id, s.source_id, FAILED, <<>>,
                    <<Warn("Could not load snapshot content", 0)>>, "none", 0),
     profile |-> NoProfile, called |-> FALSE, early |-> TRUE, raised |-> FALSE]

\* The body of the for-loop (parser.py lines 50-123) on one snapshot: the log and
\* profile it yields, whether the completion API was called, whether the log is
\* counted by the early branches (early) or by lines 125-143, and whether an
\* exception left the loop
ProcessSnapshot(s, env) ==
    IF ~s.success
    THEN [log |-> NewLog(s.snapshot_id, s.source_id, SKIPPED,
                         <<Warn("Snapshot not successful (HTTP)", s.status_code)>>,
                         <<>>, "none", 0),
          profile |-> NoProfile, called |-> FALSE, early |-> TRUE, raised |-> FALSE]
    ELSE IF ~get_adapter(s.source_type)
    THEN [log |-> NewLog(s.snapshot_id, s.source_id, SKIPPED,
                         <<Warn("No adapter for source_type", 0)>>,
                         <<>>, "none", 0),
          profile |-> NoProfile, called |-> FALSE, early |-> TRUE, raised |-> FALSE]
    ELSE IF ~env.content
    THEN ContentMissing(s)
    ELSE IF ~env.adapter_ok
    THEN [log |-> NewLog(s.snapshot_id, s.source_id, FAILED, <<>>, <<>>, "none", 0),
          profile |-> NoProfile, called |-> FALSE, early |-> FALSE, raised |-> TRUE]
    ELSE LET r == extract_company_profile(env.hint, LlmModel, s.snapshot_id,
                                          s.source_id, s.canonical_url, env.llm)
         IN  [log |-> r.log, profile |-> PostProcess(r.profile, s.canonical_url),
              called |-> TRUE, early |-> FALSE, raised |-> FALSE]

\* summary.logs.append(log), at the front instead of the back
PrependLog(logs, log) == <<log>> \o logs

\* summary.logs.append(log)
AppendLog(logs, log) == Append(logs, log)

\* The profile is kept with the snapshot_id it was extracted from (an auxiliary
\* field, of: CompanyProfile itself has no such field)
Tagged(profile, snapshot_id) == [of |-> snapshot_id, p |-> profile]

\* parser.py lines 53-60, 67-74, 83-90 and 125-143: the summary after one iteration
UpdateSummary(sm, r, snapshot_id) ==
    LET st == r.log.status
        withLog == [sm EXCEPT !.logs = AppendLog(@, r.log),
                              !.total_tokens = IF r.early THEN @ ELSE @ + r.log.llm_tokens_used]
    IN  IF st = SUCCESS
        THEN [withLog EXCEPT !.num_success = @ + 1,
                             !.profiles = IF r.profile # NoProfile
                                          THEN Append(@, Tagged(r.profile, snapshot_id)) ELSE @]
        ELSE IF st = PARTIAL
        THEN [withLog EXCEPT !.num_partial = @ + 1,
                             !.profiles = IF r.profile # NoProfile
                                          THEN Append(@, Tagged(r.profile, snapshot_id)) ELSE @]
        ELSE IF st = FAILED
        THEN [withLog EXCEPT !.num_failed = @ + 1]
        ELSE [withLog EXCEPT !.num_skipped = @ + 1]

\* parser.py lines 131, 136, 141: ctx.metrics after one iteration
UpdateMetrics(m, r) ==
    IF r.early THEN m
    ELSE IF r.log.status \in {SUCCESS, PARTIAL}
    THEN [m EXCEPT !.num_parse_success = @ + 1]
    ELSE IF r.log.status = FAILED
    THEN [m EXCEPT !.num_parse_failed = @ + 1]
    ELSE m

\* parsing/models.py ParseSummary()
EmptySummary ==
    [num_success |-> 0, num_partial |-> 0, num_failed |-> 0, num_skipped |-> 0,
     total_tokens |-> 0, profiles |-> <<>>, logs |-> <<>>]
\* core/context.py RunMetrics(), the parse counters
EmptyMetrics ==
    [num_fetch_tasks |-> 0, num_snapshots_success |-> 0, num_snapshots_failed |-> 0,
     num_parse_success |-> 0, num_parse_failed |-> 0]
EmptyStore == [saved |-> FALSE, profiles |-> <<>>, logs |-> <<>>]

\* parser.py line 149: the first error of every log that has one
FirstErrors(logs) ==
    LET withErr == SelectSeq(logs, LAMBDA l : l.errors # <<>>)
    IN  [i \in DOMAIN withErr |-> withErr[i].errors[1]]

-----------------------------------------------------------------------------
(* Inputs                                                                  *)

Snap(source_type, url, status_code, success) ==
    [snapshot_id |-> 0, source_id |-> "acme", source_type |-> source_type,
     canonical_url |-> url, status_code |-> status_code, success |-> success]
WithId(s, id) == [s EXCEPT !.snapshot_id = id]

\* Snapshots of the stage runs: a failed fetch, a source type without adapter, and
\* careers pages at a plain host and at a www host with a port
ParseKinds ==
    {Snap("careers_page", UrlAcme, 500, FALSE),
     Snap("ats_board", UrlAcme, 200, TRUE),
     Snap("careers_page", UrlAcme, 200, TRUE),
     Snap("careers_page", UrlWwwPort, 200, TRUE)}
\* Snapshots of the single iterations
ItemKinds ==
    ParseKinds \cup
    {Snap("careers_page", UrlWww, 200, TRUE),
     Snap("careers_page", UrlAcme, 0, FALSE),
     Snap("ats_board", UrlAcme, 404, FALSE)}

\* The snapshot lists of a stage run: snapshot_ids are unique (uuid4 per snapshot)
SnapshotLists ==
    UNION {{[i \in 1..n |-> WithId(f[i], i)] : f \in [1..n -> ParseKinds]}
           : n \in 0..MaxSnapshots}

Confidences == {JAbsent, JNum(Num(20)), JNum(Num(90)), JNum(NaN), JBad}
\* Every JSON object the single iterations are tried on
ItemObjects ==
    {[company_id |-> c, name |-> n, domain |-> d, website |-> w, summary |-> sm,
      confidence |-> cf, tags |-> t] :
        c \in {JAbsent, JStr(EvilId)},
        n \in {JAbsent, JStr(AcmeInc), JBad},
        d \in {JAbsent, JStr(EvilCom)},
        w \in {JAbsent, JStr(EvilUrl)},
        sm \in {JAbsent, JStr(SomeSummary)},
        cf \in Confidences,
        t \in {JAbsent, JList, JBad}}
ItemRaws == {RawEmpty, RawGarbage, RawArray} \cup {RawObject(o) : o \in ItemObjects}
ItemLlms ==
    {Llm(TRUE, RawEmpty, 0), Raising("rate limit")}
    \cup {Llm(FALSE, raw, t) : raw \in ItemRaws, t \in {0, 7}}
Hints == {NoHint, Hint(<<>>), Hint(Acme)}
ItemEnvs ==
    {Env(FALSE, TRUE, NoHint, Llm(TRUE, RawEmpty, 0)),
     Env(TRUE, FALSE, NoHint, Llm(TRUE, RawEmpty, 0))}
    \cup {Env(TRUE, TRUE, h, l) : h \in Hints, l \in ItemLlms}

\* The objects the stage runs are tried on: a valid one, one without its domain, one
\* whose name has the wrong type
ValidObject ==
    [company_id |-> JStr(EvilId), name |-> JStr(AcmeInc), domain |-> JStr(EvilCom),
     website |-> JStr(EvilUrl), summary |-> JStr(SomeSummary),
     confidence |-> JNum(Num(90)), tags |-> JList]
ParseRaws ==
    {RawEmpty, RawGarbage, RawObject(ValidObject),
     RawObject([ValidObject EXCEPT !["domain"] = JAbsent]),
     RawObject([ValidObject EXCEPT !["name"] = JBad])}
ParseLlms ==
    {Llm(TRUE, RawEmpty, 0), Raising("rate limit")}
    \cup {Llm(FALSE, raw, 7) : raw \in ParseRaws}
ParseEnvs ==
    {Env(FALSE, TRUE, NoHint, Llm(TRUE, RawEmpty, 0)),
     Env(TRUE, FALSE, NoHint, Llm(TRUE, RawEmpty, 0))}
    \cup {Env(TRUE, TRUE, h, l) : h \in {NoHint, Hint(Acme)}, l \in ParseLlms}

\* The loop body consults the environment only for a successful snapshot with an adapter
Consults(s) == s.success /\ s.source_type \in ADAPTER_REGISTRY

-----------------------------------------------------------------------------
(* The parse stage as a state machine                                      *)

ParseIdle ==
    /\ snapshots = <<>> /\ pidx = 1 /\ ppc = "done"
    /\ summary = EmptySummary /\ metrics = EmptyMetrics /\ stage_logs = <<>>
    /\ parseStore = EmptyStore /\ llmCalls = <<>> /\ cur = NoCur

ParseInit ==
    /\ snapshots \in SnapshotLists
    /\ pidx = 1 /\ ppc = "start"
    /\ summary = EmptySummary /\ metrics = EmptyMetrics /\ stage_logs = <<>>
    /\ parseStore = EmptyStore /\ llmCalls = <<>> /\ cur = NoCur

\* parser.py lines 44-48
ParseStart ==
    /\ ppc = "start"
    /\ stage_logs' = start_stage(stage_logs, "parse", Len(snapshots))
    /\ summary' = EmptySummary
    /\ ppc' = "loop"
    /\ UNCHANGED <<snapshots, pidx, metrics, parseStore, llmCalls, cur>>
    /\ UNCHANGED <<itemVars, fetchVars, rateVars, runVars, apiVars>>

\* parser.py lines 50-143: one iteration of the loop
ParseIterate ==
    /\ ppc = "loop" /\ pidx <= Len(snapshots)
    /\ LET s == snapshots[pidx] IN
       \E env \in IF Consults(s) THEN ParseEnvs ELSE {NoEnv} :
          LET r == ProcessSnapshot(s, env) IN
          /\ cur' = env
          /\ llmCalls' = IF r.called THEN Append(llmCalls, s.snapshot_id) ELSE llmCalls
          /\ IF r.raised
             THEN /\ ppc' = "raised"
                  /\ UNCHANGED <<pidx, summary, metrics>>
             ELSE /\ summary' = UpdateSummary(summary, r, s.snapshot_id)
                  /\ metrics' = UpdateMetrics(metrics, r)
                  /\ pidx' = pidx + 1
                  /\ ppc' = "loop"
    /\ UNCHANGED <<snapshots, stage_logs, parseStore>>
    /\ UNCHANGED <<itemVars, fetchVars, rateVars, runVars, apiVars>>

\* parser.py lines 145-167
ParseFinish ==
    /\ ppc = "loop" /\ pidx > Len(snapshots)
    /\ parseStore' = [saved |-> TRUE, profiles |-> summary.profiles, logs |-> summary.logs]
    /\ stage_logs' = complete_stage(stage_logs, "parse", Len(summary.profiles),
                                    FirstErrors(summary.logs), "completed")
    /\ ppc' = "done"
    /\ UNCHANGED <<snapshots, pidx, summary, metrics, llmCalls, cur>>
    /\ UNCHANGED <<itemVars, fetchVars, rateVars, runVars, apiVars>>

ParseNext == ParseStart \/ ParseIterate \/ ParseFinish

-----------------------------------------------------------------------------
(* One iteration of the loop on one snapshot, over all its inputs          *)

NoOut == [none |-> TRUE]
IdleOut == [none |-> FALSE]
ItemInputs ==
    UNION {{[snapshot |-> WithId(k, 1), env |-> e]
            : e \in IF Consults(k) THEN ItemEnvs ELSE {NoEnv}} : k \in ItemKinds}

ItemIdle == item = IdleOut /\ itemOut = IdleOut
ItemInit == item \in ItemInputs /\ itemOut = NoOut

ItemProcess ==
    /\ itemOut = NoOut
    /\ itemOut' = ProcessSnapshot(item.snapshot, item.env)
    /\ UNCHANGED <<item, parseVars, fetchVars, rateVars, runVars, apiVars>>

-----------------------------------------------------------------------------
(* collectors/http_client.py HttpClient.fetch                              *)

MaxRetriesCeiling == 6

Exc(kind) == [exc |-> kind, status |-> 0]
Resp(status) == [exc |-> "none", status |-> status]
\* What one self._client.get(url) can do: raise a timeout, a network error or
\* another httpx error (too many redirects, unsupported protocol), or return a
\* response with a status
Outcomes ==
    {Exc("TimeoutException"), Exc("NetworkError"), Exc("HTTPError")}
    \cup {Resp(c) : c \in {200, 204, 301, 404, 500}}

\* Subclasses of Exception among what the fetch can raise
ExceptionClasses ==
    {"TimeoutException", "NetworkError", "HTTPError", "RetryError", "RuntimeError"}

\* line 108, narrowed to the httpx errors
CaughtByFetchHttpOnly(kind) == kind \in {"TimeoutException", "NetworkError", "HTTPError"}

\* line 108: except Exception
CaughtByFetch(kind) == kind \in ExceptionClasses

\* line 130: retry_if_exception_type((httpx.TimeoutException, httpx.NetworkError))
Retryable(kind) == kind \in {"TimeoutException", "NetworkError"}

\* tenacity retrying a returned response with a 5xx status as well
ShouldRetryServerErrors(o) ==
    IF o.exc = "none" THEN o.status >= 500 ELSE o.exc \in {"TimeoutException", "NetworkError"}

\* tenacity's retry predicate on the outcome of one attempt: retry_if_exception_type
\* is false for an attempt that returned, whatever the status of the response
ShouldRetry(o) == o.exc # "none" /\ Retryable(o.exc)

\* stop_after_attempt stopping one attempt late
StopAfterAttemptLate(attempt_number, max_retries) == attempt_number > max_retries

\* line 128: stop_after_attempt(self.max_retries)
StopAfterAttempt(attempt_number, max_retries) == attempt_number >= max_retries

RECURSIVE Pow2(_)
Pow2(n) == IF n <= 0 THEN 1 ELSE 2 * Pow2(n - 1)
MinOf(a, b) == IF a < b THEN a ELSE b
MaxOf(a, b) == IF a > b THEN a ELSE b
\* line 129: wait_exponential(multiplier=1, min=1, max=10), in seconds
WaitMin == 1
WaitMax == 10
WaitExponential(attempt_number) == MaxOf(WaitMin, MinOf(1 * Pow2(attempt_number - 1), WaitMax))

\* httpx.Response.is_success
IsSuccess(status) == 200 <= status /\ status <= 299

NoResult == [none |-> TRUE]
\* lines 97-106
ResponseResult(status, retry_count) ==
    [status_code |-> status, success |-> IsSuccess(status), error |-> "none",
     has_content |-> TRUE, retry_count |-> retry_count]
\* lines 110-120
FailureResult(kind, retry_count) ==
    [status_code |-> 0, success |-> FALSE, error |-> kind,
     has_content |-> FALSE, retry_count |-> retry_count]

FetchIdle ==
    /\ client = [max_retries |-> 3, initialised |-> FALSE]
    /\ fpc = "done" /\ attempts = <<>> /\ waits = <<>> /\ acquires = 0
    /\ fetchResult = NoResult

FetchInit ==
    /\ client \in [max_retries : 1..MaxRetriesCeiling, initialised : BOOLEAN]
    /\ fpc = "idle" /\ attempts = <<>> /\ waits = <<>> /\ acquires = 0
    /\ fetchResult = NoResult

\* An exception of class kind reaches the try of fetch (lines 93-120); retry_count
\* is the local of line 91, which nothing assigns after its initialisation to 0
Raise(kind) ==
    IF CaughtByFetch(kind)
    THEN fetchResult' = FailureResult(kind, 0) /\ fpc' = "done"
    ELSE fetchResult' = fetchResult /\ fpc' = "raised"

\* line 88: await self.rate_limiter.acquire()
FetchAcquire ==
    /\ fpc = "idle"
    /\ acquires' = acquires + 1
    /\ fpc' = "call"
    /\ UNCHANGED <<client, attempts, waits, fetchResult>>
    /\ UNCHANGED <<parseVars, itemVars, rateVars, runVars, apiVars>>

\* lines 94 and 124-125: _fetch_with_retry is entered
FetchCall ==
    /\ fpc = "call"
    /\ IF client.initialised
       THEN fpc' = "try" /\ UNCHANGED fetchResult
       ELSE Raise("RuntimeError")
    /\ UNCHANGED <<client, attempts, waits, acquires>>
    /\ UNCHANGED <<parseVars, itemVars, rateVars, runVars, apiVars>>

\* lines 127-135: one attempt of _do_fetch under the tenacity policy
FetchAttempt ==
    /\ fpc = "try"
    /\ \E o \in Outcomes :
          /\ attempts' = Append(attempts, o)
          /\ IF ShouldRetry(o)
             THEN IF StopAfterAttempt(Len(attempts) + 1, client.max_retries)
                  THEN Raise("RetryError")
                  ELSE fpc' = "backoff" /\ UNCHANGED fetchResult
             ELSE IF o.exc = "none"
             THEN fetchResult' = ResponseResult(o.status, 0) /\ fpc' = "done"
             ELSE Raise(o.exc)
    /\ UNCHANGED <<client, waits, acquires>>
    /\ UNCHANGED <<parseVars, itemVars, rateVars, runVars, apiVars>>

\* a retry that goes through the rate limiter again
FetchBackoffAcquiring ==
    /\ fpc = "backoff"
    /\ waits' = Append(waits, WaitExponential(Len(attempts)))
    /\ acquires' = acquires + 1
    /\ fpc' = "try"
    /\ UNCHANGED <<client, attempts, fetchResult>>
    /\ UNCHANGED <<parseVars, itemVars, rateVars, runVars, apiVars>>

\* the sleep tenacity inserts before the next attempt
FetchBackoff ==
    /\ fpc = "backoff"
    /\ waits' = Append(waits, WaitExponential(Len(attempts)))
    /\ fpc' = "try"
    /\ UNCHANGED <<client, attempts, acquires, fetchResult>>
    /\ UNCHANGED <<parseVars, itemVars, rateVars, runVars, apiVars>>

FetchNext == FetchAcquire \/ FetchCall \/ FetchAttempt \/ FetchBackoff

-----------------------------------------------------------------------------
(* collectors/http_client.py RateLimiter                                   *)

\* ticks of the clock per second
TicksPerSecond == 4
\* the clock values explored
MaxClock == 9
\* the acquire() calls explored
MaxAcquires == 3
\* the coroutines sharing the limiter
Coroutines == {1, 2}
\* requests per second: negative, zero (both meaning unlimited), and positive
Rates == {-1, 0, 1, 2}

\* line 46: min_interval = 1.0 / self.rate, in ticks
MinInterval(rate) == TicksPerSecond \div rate

\* line 50, never waiting
NeedsWaitNever(elapsed, min_interval) == FALSE

\* line 50: if elapsed < min_interval
NeedsWait(elapsed, min_interval) == elapsed < min_interval

\* RateLimiter(rate=rate_limit): _last_request starts at 0.0
NewLimiter(rate) == [rate |-> rate, last_request |-> 0]

NotInAcquire == [pc |-> "out", wake |-> 0]

RateIdle ==
    /\ clock = MaxClock /\ limiter = NewLimiter(1) /\ racq = <<>>
    /\ permits = <<>> /\ overlapped = FALSE

RateInit ==
    /\ clock \in {0, TicksPerSecond + 1}
    /\ limiter \in {NewLimiter(r) : r \in Rates}
    /\ racq = [c \in Coroutines |-> NotInAcquire]
    /\ permits = <<>> /\ overlapped = FALSE

\* time passes
Tick ==
    /\ racq # <<>> /\ clock < MaxClock
    /\ clock' = clock + 1
    /\ UNCHANGED <<limiter, racq, permits, overlapped>>
    /\ UNCHANGED <<parseVars, itemVars, fetchVars, runVars, apiVars>>

\* lines 43-53 up to the first suspension: coroutine c enters acquire(). With a
\* non-positive rate it returns at once; when no wait is needed it stamps
\* _last_request and returns; otherwise it suspends in asyncio.sleep
AcquireEnter(c) ==
    /\ racq[c].pc = "out"
    /\ Len(permits) + Cardinality({d \in DOMAIN racq : racq[d].pc = "sleep"}) < MaxAcquires
    /\ overlapped' = (overlapped \/ \E d \in DOMAIN racq : racq[d].pc = "sleep")
    /\ IF limiter.rate <= 0
       THEN /\ permits' = Append(permits, clock)
            /\ UNCHANGED <<limiter, racq>>
       ELSE LET min_interval == MinInterval(limiter.rate)
                elapsed == clock - limiter.last_request
            IN  IF NeedsWait(elapsed, min_interval)
                THEN /\ racq' = [racq EXCEPT ![c] = [pc |-> "sleep",
                                                     wake |-> clock + (min_interval - elapsed)]]
                     /\ UNCHANGED <<limiter, permits>>
                ELSE /\ limiter' = [limiter EXCEPT !.last_request = clock]
                     /\ permits' = Append(permits, clock)
                     /\ UNCHANGED racq
    /\ UNCHANGED clock
    /\ UNCHANGED <<parseVars, itemVars, fetchVars, runVars, apiVars>>

\* lines 51-53: the sleep of coroutine c is over (asyncio.sleep returns no earlier
\* than asked), it stamps _last_request and returns
AcquireResume(c) ==
    /\ racq[c].pc = "sleep" /\ clock >= racq[c].wake
    /\ limiter' = [limiter EXCEPT !.last_request = clock]
    /\ permits' = Append(permits, clock)
    /\ racq' = [racq EXCEPT ![c] = NotInAcquire]
    /\ UNCHANGED <<clock, overlapped>>
    /\ UNCHANGED <<parseVars, itemVars, fetchVars, runVars, apiVars>>

RateNext ==
    \/ Tick
    \/ \E c \in DOMAIN racq : AcquireEnter(c)
    \/ \E c \in DOMAIN racq : AcquireResume(c)

-----------------------------------------------------------------------------
(* evidence/snapshot.py: the files of a FileSnapshotStore                  *)

\* snapshot.py lines 100-101 with the snapshots of a run all in one file, "0.content"
content_path_per_run(run_id, snapshot_id) == <<run_id, 0, "content">>
\* snapshot.py lines 100-101: base_dir / run_id / f"{snapshot_id}.content"
ContentPath(run_id, snapshot_id) == <<run_id, snapshot_id, "content">>
\* snapshot.py lines 97-98: base_dir / run_id / f"{snapshot_id}.meta.json"
MetaPath(run_id, snapshot_id) == <<run_id, snapshot_id, "meta.json">>

\* path.write_bytes(data) / json.dump(data, open(path, "w")): the file holds data
WriteFile(files, path, data) == (path :> data) @@ files

JNull == [k |-> "null"]
JBool(b) == [k |-> "bool", b |-> b]
\* snapshot.model_dump(mode="json") that leaves content_path out
model_dump_without_path(snapshot) ==
    [snapshot_id |-> JStr(snapshot.snapshot_id), run_id |-> JStr(snapshot.run_id),
     source_id |-> JStr(snapshot.source_id), source_type |-> JStr(snapshot.source_type),
     original_url |-> JStr(snapshot.original_url),
     canonical_url |-> JStr(snapshot.canonical_url),
     status_code |-> JNum(snapshot.status_code), success |-> JBool(snapshot.success),
     error |-> IF snapshot.error = "none" THEN JNull ELSE JStr(snapshot.error),
     content_path |-> JNull]
\* snapshot.py line 115: snapshot.model_dump(mode="json") written by json.dump; None
\* (error "none", content_path <<>>) is written as null
model_dump(snapshot) ==
    [snapshot_id |-> JStr(snapshot.snapshot_id), run_id |-> JStr(snapshot.run_id),
     source_id |-> JStr(snapshot.source_id), source_type |-> JStr(snapshot.source_type),
     original_url |-> JStr(snapshot.original_url),
     canonical_url |-> JStr(snapshot.canonical_url),
     status_code |-> JNum(snapshot.status_code), success |-> JBool(snapshot.success),
     error |-> IF snapshot.error = "none" THEN JNull ELSE JStr(snapshot.error),
     content_path |-> IF snapshot.content_path = <<>> THEN JNull
                      ELSE JStr(snapshot.content_path)]
\* snapshot.py line 131: RawSnapshot(**json.load(f))
RawSnapshotOf(json) ==
    [snapshot_id |-> json.snapshot_id.s, run_id |-> json.run_id.s,
     source_id |-> json.source_id.s, source_type |-> json.source_type.s,
     original_url |-> json.original_url.s, canonical_url |-> json.canonical_url.s,
     status_code |-> json.status_code.n, success |-> json.success.b,
     error |-> IF json.error = JNull THEN "none" ELSE json.error.s,
     content_path |-> IF json.content_path = JNull THEN <<>> ELSE json.content_path.s]

\* snapshot.py lines 134-141: the bytes get_content may return, from whichever run
\* directory iterdir() yields first among those that hold the file; none for None
get_content(files, snapshot_id) ==
    {files[p] : p \in {q \in DOMAIN files : q[2] = snapshot_id /\ q[3] = "content"}}
\* snapshot.py lines 124-132: likewise for the metadata
get_metadata(files, snapshot_id) ==
    {RawSnapshotOf(files[p]) :
        p \in {q \in DOMAIN files : q[2] = snapshot_id /\ q[3] = "meta.json"}}

\* snapshot.py lines 143-152: the snapshots of the metadata files of one run
\* directory (as a set: the order by fetched_at is left out)
list_by_run(files, run_id) ==
    {RawSnapshotOf(files[p]) :
        p \in {q \in DOMAIN files : q[1] = run_id /\ q[3] = "meta.json"}}

\* snapshot.py lines 106-110: save() sets content_path on the snapshot it was given
WithContentPath(snapshot) ==
    [snapshot EXCEPT !.content_path = ContentPath(snapshot.run_id, snapshot.snapshot_id)]

-----------------------------------------------------------------------------
(* collectors/planner.py, collectors/collector.py, orchestration/runner.py *)

\* the sources of a run
MaxSources == 2

\* core/context.py RunStatus
RUNNING   == "running"
COMPLETED == "completed"
RUN_FAILED == "failed"

NoRun == [none |-> TRUE]

\* RunContext.complete_run that stamps completed_at and leaves the status as it is
complete_run_running(r, status) == [r EXCEPT !.completed_at = "stamped"]

\* RunContext.complete_run that leaves completed_at unset
complete_run_unstamped(r, status) == [r EXCEPT !.status = status]

\* core/context.py RunContext.complete_run
complete_run(r, status) == [r EXCEPT !.status = status, !.completed_at = "stamped"]

SourceIds == <<"acme", "globex", "initech">>
\* collectors/planner.py FetchPolicy
FetchPolicy(rate_limit_rps, timeout_seconds, max_retries) ==
    [rate_limit_rps |-> rate_limit_rps, timeout_seconds |-> timeout_seconds,
     max_retries |-> max_retries]
\* what the sources file asks for each source: the defaults of SourceConfig for the
\* first, a faster pace with a short timeout and no retry for the second, more
\* retries for the third
SourcePolicies == <<FetchPolicy(1, 30, 3), FetchPolicy(5, 5, 1), FetchPolicy(1, 60, 5)>>
\* core/config.py Settings of the runs: HTTP client settings other than the defaults
\* of HttpClient.__init__
Settings == [default_timeout |-> 10, default_rate_limit |-> 2]
\* http_client.py line 63: max_retries: int = 3
DefaultMaxRetries == 3
\* "https://ACME.com/careers/?utm_source=x"
UrlAcmeTracked ==
    <<"h","t","t","p","s",":","/","/","A","C","M","E",".","c","o","m">> \o Careers
    \o <<"/","?","u","t","m","_","s","o","u","r","c","e","=","x">>
\* the URLs a sources file gives for the careers page of Acme
SourceUrls == {UrlAcmeRaw, UrlAcmeTracked}
\* core/config.py SourceConfig
SourceConfig(source_id, source_type, url, enabled, policy) ==
    [source_id |-> source_id, source_type |-> source_type, url |-> url,
     enabled |-> enabled, rate_limit_rps |-> policy.rate_limit_rps,
     timeout_seconds |-> policy.timeout_seconds, max_retries |-> policy.max_retries]
\* the sources files of the runs: source_ids are distinct
SourceLists ==
    UNION {{[i \in 1..n |-> SourceConfig(SourceIds[i], f[i][1], f[i][2], f[i][3], SourcePolicies[i])]
            : f \in [1..n -> {"careers_page", "ats_board"} \X SourceUrls \X BOOLEAN]}
           : n \in 0..MaxSources}

\* collectors/planner.py FetchTask.from_source_config
from_source_config(config) ==
    [url |-> config.url, original_url |-> config.url, source_id |-> config.source_id,
     source_type |-> config.source_type,
     fetch_policy |-> FetchPolicy(config.rate_limit_rps, config.timeout_seconds,
                                  config.max_retries)]

\* plan_sources without the test of line 67: a task per source, enabled or not
plan_sources_all(srcs) == [i \in DOMAIN srcs |-> from_source_config(srcs[i])]

\* collectors/planner.py plan_sources, lines 63-73: a task per enabled source
plan_sources(srcs) ==
    LET enabled == SelectSeq(srcs, LAMBDA c : c.enabled)
    IN  [i \in DOMAIN enabled |-> from_source_config(enabled[i])]

\* ctx.run_id of the run
RunId == "run1"

\* What client.fetch returns to the collect stage: a response with a 2xx or an
\* error status, or the failure of a fetch whose attempts all timed out
CollectFetchResults ==
    {ResponseResult(200, 0), ResponseResult(500, 0), FailureResult("RetryError", 0)}

\* collector.py lines 35-50: the RawSnapshot of a task and its fetch result;
\* snapshot_id stands for the uuid the model draws, distinct per snapshot
RawSnapshot(task, result, snapshot_id) ==
    [snapshot_id |-> snapshot_id, run_id |-> RunId, source_id |-> task.source_id,
     source_type |-> task.source_type, original_url |-> task.original_url,
     canonical_url |-> normalize_url(task.url), status_code |-> result.status_code,
     success |-> result.success, error |-> result.error, content_path |-> <<>>]

\* result.content: the bytes of a page, of an error page, or none
ContentOf(result) ==
    IF ~result.has_content THEN <<>> ELSE IF result.success THEN <<"a">> ELSE <<"e">>

\* what store.save does with the snapshot (snapshot.py lines 103-122): both files
\* written, the content written and the metadata write raising, or the content
\* write raising
SaveOutcomes == {"saved", "content_only", "nothing"}

\* collector.py line 94, keeping only the snapshots of successful fetches
KeepSnapshotIfSuccess(stored) == stored.success

\* collector.py line 94: if snapshot (a RawSnapshot object is always true)
KeepSnapshot(stored) == TRUE

\* collector.py line 56: result.error or f"HTTP {result.status_code}"
TaskError(task, result) ==
    [source_id |-> task.source_id,
     msg |-> IF result.error # "none" THEN result.error ELSE "HTTP",
     code |-> IF result.error # "none" THEN 0 ELSE result.status_code]

\* collector.py lines 55-58 yielding an error for every task, failed or not
CollectErrorsAlways(errors, task, result) == Append(errors, TaskError(task, result))

\* collector.py lines 55-58 and 101-102: the errors list of collect after one task
CollectErrors(errors, task, result) ==
    IF ~result.success THEN Append(errors, TaskError(task, result)) ELSE errors

\* runner.py lines 81 and 199: str(e) of the exception that reached the handler
RunError(fault) == [msg |-> fault, code |-> 0]

NoClient == [none |-> TRUE]
\* http_client.py lines 59-71: HttpClient(timeout, rate_limit, max_retries); the
\* rate limiter is built with rate_limit and _client is None
HttpClient(timeout, rate_limit, max_retries) ==
    [timeout |-> timeout, rate_limit |-> rate_limit, max_retries |-> max_retries,
     initialised |-> FALSE]
\* http_client.py lines 73-79: __aenter__
Entered(c) == [c EXCEPT !.initialised = TRUE]
\* http_client.py lines 81-84: __aexit__
Exited(c) == [c EXCEPT !.initialised = FALSE]

\* a client built for the task from its own fetch_policy
ClientFromPolicy(c, task) ==
    Entered(HttpClient(task.fetch_policy.timeout_seconds, task.fetch_policy.rate_limit_rps,
                       task.fetch_policy.max_retries))

\* collector.py lines 90-92 and 27: the client that fetches the task is the one
\* collect has entered, whatever the task
ClientOfTask(c, task) == c

\* a client.fetch(url) call: the URL and the timeout, pace and retry ceiling of the
\* client that serves it
FetchOf(c, url) ==
    [url |-> url, timeout |-> c.timeout, rate_limit |-> c.rate_limit,
     max_retries |-> c.max_retries, initialised |-> c.initialised]

ClientIdle == collectClient = NoClient /\ fetchCalls = <<>>

RunIdle ==
    /\ checkpoint = "none" /\ rpc = "idle" /\ run = NoRun
    /\ sources = <<>> /\ tasks = <<>>
    /\ cpc = "idle" /\ cidx = 1 /\ collected = <<>> /\ collectErrors = <<>>
    /\ snapStore = <<>> /\ fetched = <<>> /\ faults = {}

RunInit ==
    /\ checkpoint \in {"A", "B"} /\ rpc = "boot" /\ run = NoRun
    /\ sources \in SourceLists /\ tasks = <<>>
    /\ cpc = "idle" /\ cidx = 1 /\ collected = <<>> /\ collectErrors = <<>>
    /\ snapStore = <<>> /\ fetched = <<>> /\ faults = {}

\* context.py lines 73-107 (runner.py lines 51 and 157): RunContext.boot creates the
\* directory and writes the configuration snapshot, then builds the context; an
\* OSError of the write leaves boot, and the orchestrator, before any context exists
RunBoot ==
    /\ rpc = "boot"
    /\ \E written \in BOOLEAN :
          IF written
          THEN /\ run' = [status |-> RUNNING, completed_at |-> "none"]
               /\ rpc' = "plan"
               /\ UNCHANGED faults
          ELSE /\ faults' = faults \cup {"config_write"}
               /\ rpc' = "boot_raised"
               /\ UNCHANGED run
    /\ UNCHANGED <<checkpoint, sources, tasks, cpc, cidx, collected, collectErrors,
                   snapStore, fetched>>
    /\ UNCHANGED <<parseVars, itemVars, fetchVars, rateVars, apiVars>>

\* planner.py lines 49-95 and runner.py lines 65-69 / 172-176
RunPlan ==
    /\ rpc = "plan"
    /\ LET planned == plan_sources(sources) IN
          /\ tasks' = planned
          /\ metrics' = [metrics EXCEPT !.num_fetch_tasks = Len(planned)]
          /\ stage_logs' = complete_stage(start_stage(stage_logs, "plan_sources", Len(sources)),
                                          "plan_sources", Len(planned), <<>>, "completed")
          /\ IF planned = <<>>
             THEN run' = complete_run(run, COMPLETED) /\ rpc' = "returned"
             ELSE UNCHANGED run /\ rpc' = "snapshot_store"
    /\ UNCHANGED <<checkpoint, sources, cpc, cidx, collected, collectErrors,
                   snapStore, fetched, faults>>
    /\ UNCHANGED <<snapshots, pidx, ppc, summary, parseStore, llmCalls, cur>>
    /\ UNCHANGED <<itemVars, fetchVars, rateVars, apiVars>>

\* runner.py lines 72 / 179 and snapshot.py lines 88-90: FileSnapshotStore(...)
\* creates its directory, which can raise
RunSnapshotStore ==
    /\ rpc = "snapshot_store"
    /\ \E made \in BOOLEAN :
          IF made
          THEN rpc' = "collect" /\ cpc' = "start" /\ UNCHANGED faults
          ELSE rpc' = "except" /\ faults' = faults \cup {"snapshot_store_init"} /\ UNCHANGED cpc
    /\ UNCHANGED <<checkpoint, run, sources, tasks, cidx, collected, collectErrors,
                   snapStore, fetched>>
    /\ UNCHANGED <<parseVars, itemVars, fetchVars, rateVars, apiVars>>

\* collector.py lines 78-88
CollectStart ==
    /\ cpc = "start"
    /\ stage_logs' = start_stage(stage_logs, "collect", Len(tasks))
    /\ collected' = <<>> /\ collectErrors' = <<>> /\ cidx' = 1
    /\ collectClient' = Entered(HttpClient(Settings.default_timeout,
                                           Settings.default_rate_limit, DefaultMaxRetries))
    /\ cpc' = "loop"
    /\ UNCHANGED <<checkpoint, rpc, run, sources, tasks, snapStore, fetched, faults>>
    /\ UNCHANGED <<snapshots, pidx, ppc, summary, metrics, parseStore, llmCalls, cur>>
    /\ UNCHANGED <<itemVars, fetchVars, rateVars, stageVars, urlVars, storeVars, fetchCalls>>

\* collector.py lines 27-58 and 94-102 on one task: result is what client.fetch
\* returned, stored the RawSnapshot built from it as save() returns it, saved what
\* store.save wrote before it returned or raised
CollectOne(task, result, stored, saved) ==
    /\ fetched' = Append(fetched, result)
    /\ fetchCalls' = Append(fetchCalls, FetchOf(ClientOfTask(collectClient, task), task.url))
    /\ collectClient' = IF saved # "saved" THEN Exited(collectClient) ELSE collectClient
    /\ fs' = IF saved = "nothing" THEN fs
             ELSE IF saved = "content_only"
             THEN WriteFile(fs, stored.content_path, ContentOf(result))
             ELSE WriteFile(WriteFile(fs, stored.content_path, ContentOf(result)),
                            MetaPath(stored.run_id, stored.snapshot_id), model_dump(stored))
    /\ IF saved # "saved"
       THEN /\ cpc' = "raised"
            /\ faults' = faults \cup {"snapshot_save"}
            /\ UNCHANGED <<cidx, collected, collectErrors, snapStore, metrics>>
       ELSE /\ snapStore' = Append(snapStore, stored)
            /\ collected' = IF KeepSnapshot(stored)
                            THEN Append(collected, stored) ELSE collected
            /\ metrics' = IF ~KeepSnapshot(stored) THEN metrics
                          ELSE IF stored.success
                          THEN [metrics EXCEPT !.num_snapshots_success = @ + 1]
                          ELSE [metrics EXCEPT !.num_snapshots_failed = @ + 1]
            /\ collectErrors' = CollectErrors(collectErrors, task, result)
            /\ cidx' = cidx + 1
            /\ UNCHANGED <<cpc, faults>>

\* collector.py lines 89-102 with _collect_task (lines 15-58) and
\* FileSnapshotStore.save (snapshot.py lines 103-122): one task is fetched, its
\* snapshot saved and counted; an error of the save leaves collect
CollectTask ==
    /\ cpc = "loop" /\ cidx <= Len(tasks)
    /\ \E result \in CollectFetchResults, saved \in SaveOutcomes :
          CollectOne(tasks[cidx], result,
                     WithContentPath(RawSnapshot(tasks[cidx], result, cidx)), saved)
    /\ UNCHANGED <<checkpoint, rpc, run, sources, tasks>>
    /\ UNCHANGED <<snapshots, pidx, ppc, summary, stage_logs, parseStore, llmCalls, cur>>
    /\ UNCHANGED <<itemVars, fetchVars, rateVars, stageVars, urlVars, savers, returned>>

\* collect returning without its call of complete_stage
CollectFinishLeavingOpen ==
    /\ cpc = "loop" /\ cidx > Len(tasks)
    /\ collectClient' = Exited(collectClient)
    /\ cpc' = "done"
    /\ UNCHANGED <<checkpoint, rpc, run, sources, tasks, cidx, collected, collectErrors,
                   snapStore, fetched, faults>>
    /\ UNCHANGED <<parseVars, itemVars, fetchVars, rateVars>>
    /\ UNCHANGED <<stageVars, urlVars, storeVars, fetchCalls>>

\* collector.py lines 104-121
CollectFinish ==
    /\ cpc = "loop" /\ cidx > Len(tasks)
    /\ stage_logs' = complete_stage(stage_logs, "collect", Len(collected), collectErrors,
                                    IF collected # <<>> THEN "completed" ELSE "failed")
    /\ collectClient' = Exited(collectClient)
    /\ cpc' = "done"
    /\ UNCHANGED <<checkpoint, rpc, run, sources, tasks, cidx, collected, collectErrors,
                   snapStore, fetched, faults>>
    /\ UNCHANGED <<snapshots, pidx, ppc, summary, metrics, parseStore, llmCalls, cur>>
    /\ UNCHANGED <<itemVars, fetchVars, rateVars, stageVars, urlVars, storeVars, fetchCalls>>

CollectNext == CollectStart \/ CollectTask \/ CollectFinish

\* runner.py lines 183-184 and store.py lines 43-45: collect has returned to
\* checkpoint B, FileParseStore(...) creates its directory (which can raise) and
\* parse_and_normalize is called on the snapshots collect returned
RunParseStore ==
    /\ rpc = "collect" /\ cpc = "done" /\ checkpoint = "B"
    /\ \E made \in BOOLEAN :
          IF made
          THEN /\ rpc' = "parse"
               /\ snapshots' = collected /\ pidx' = 1 /\ ppc' = "start"
               /\ UNCHANGED faults
          ELSE /\ rpc' = "except"
               /\ faults' = faults \cup {"parse_store_init"}
               /\ UNCHANGED <<snapshots, pidx, ppc>>
    /\ UNCHANGED <<checkpoint, run, sources, tasks, cpc, cidx, collected, collectErrors,
                   snapStore, fetched>>
    /\ UNCHANGED <<summary, metrics, stage_logs, parseStore, llmCalls, cur>>
    /\ UNCHANGED <<itemVars, fetchVars, rateVars, apiVars>>

\* runner.py line 75 (checkpoint A, collect has returned) and line 194 (checkpoint
\* B, parse_and_normalize has returned): complete_run(COMPLETED) and return ctx
RunComplete ==
    /\ \/ rpc = "collect" /\ cpc = "done" /\ checkpoint = "A"
       \/ rpc = "parse" /\ ppc = "done"
    /\ run' = complete_run(run, COMPLETED)
    /\ rpc' = "returned"
    /\ UNCHANGED <<checkpoint, sources, tasks, cpc, cidx, collected, collectErrors,
                   snapStore, fetched, faults>>
    /\ UNCHANGED <<parseVars, itemVars, fetchVars, rateVars, apiVars>>

\* the exception that is on its way to the handler of the orchestrator
InFlight ==
    IF rpc = "except" THEN "OSError: directory"
    ELSE IF rpc = "collect" /\ cpc = "raised" THEN "OSError: snapshot"
    ELSE IF rpc = "parse" /\ ppc = "raised" THEN "adapter error"
    ELSE "none"

\* the handler of runner.py lines 77-82 / 196-200 removing the files of the failed
\* run from the snapshot store
RunExceptCleaningUp ==
    /\ InFlight # "none"
    /\ run' = complete_run(run, RUN_FAILED)
    /\ stage_logs' = IF stage_logs = <<>> THEN stage_logs
                     ELSE [stage_logs EXCEPT ![Len(stage_logs)].errors =
                               Append(@, RunError(InFlight))]
    /\ rpc' = "raised"
    /\ fs' = <<>>
    /\ UNCHANGED <<checkpoint, sources, tasks, cpc, cidx, collected, collectErrors,
                   snapStore, fetched, faults>>
    /\ UNCHANGED <<snapshots, pidx, ppc, summary, metrics, parseStore, llmCalls, cur>>
    /\ UNCHANGED <<itemVars, fetchVars, rateVars, stageVars, urlVars, savers, returned>>
    /\ UNCHANGED clientVars

\* runner.py lines 77-82 / 196-200: the handler marks the run FAILED, appends the
\* text of the exception to the last stage log, and raises again
RunExcept ==
    /\ InFlight # "none"
    /\ run' = complete_run(run, RUN_FAILED)
    /\ stage_logs' = IF stage_logs = <<>> THEN stage_logs
                     ELSE [stage_logs EXCEPT ![Len(stage_logs)].errors =
                               Append(@, RunError(InFlight))]
    /\ rpc' = "raised"
    /\ UNCHANGED <<checkpoint, sources, tasks, cpc, cidx, collected, collectErrors,
                   snapStore, fetched, faults>>
    /\ UNCHANGED <<snapshots, pidx, ppc, summary, metrics, parseStore, llmCalls, cur>>
    /\ UNCHANGED <<itemVars, fetchVars, rateVars, apiVars>>

RunNext ==
    \/ RunBoot \/ RunPlan \/ RunSnapshotStore \/ RunParseStore \/ RunComplete \/ RunExcept
    \/ CollectNext \/ ParseNext

-----------------------------------------------------------------------------
(* core/context.py: start_stage and complete_stage called in any order on  *)
(* one RunContext                                                          *)

\* the stage logs one RunContext holds
MaxStageLogs == 3

StageNames == {"collect", "parse"}
\* the (status, errors) a stage is completed with
StageOutcomes == {<<"completed", <<>>>>, <<"failed", <<[msg |-> "boom", code |-> 0]>>>>}

NoCall == [op |-> "none"]
\* the call just made, with the context as it was before the call
Call(op, stage, items, status) ==
    [op |-> op, stage |-> stage, items |-> items, status |-> status,
     before |-> stage_logs, run_before |-> run]

\* the logs of that name with completed_at unset
OpenLogs(logs, stage) == {i \in DOMAIN logs : logs[i].stage = stage /\ logs[i].open}

StageIdle == stageCall = NoCall

\* a context that boot has returned: RUNNING, no stage log
StageInit ==
    /\ stageCall = NoCall
    /\ checkpoint = "none" /\ rpc = "idle"
    /\ run = [status |-> RUNNING, completed_at |-> "none"]
    /\ sources = <<>> /\ tasks = <<>>
    /\ cpc = "idle" /\ cidx = 1 /\ collected = <<>> /\ collectErrors = <<>>
    /\ snapStore = <<>> /\ fetched = <<>> /\ faults = {}

\* context.py lines 109-117
StageStart ==
    /\ Len(stage_logs) < MaxStageLogs
    /\ \E stage \in StageNames :
          /\ stage_logs' = start_stage(stage_logs, stage, 1)
          /\ stageCall' = Call("start_stage", stage, 1, "running")
    /\ UNCHANGED <<snapshots, pidx, ppc, summary, metrics, parseStore, llmCalls, cur>>
    /\ UNCHANGED <<itemVars, fetchVars, rateVars, runVars, clientVars, urlVars, storeVars>>

\* context.py lines 119-137
StageComplete ==
    /\ \E stage \in StageNames, outcome \in StageOutcomes :
          /\ stage_logs' = complete_stage(stage_logs, stage, 1, outcome[2], outcome[1])
          /\ stageCall' = Call("complete_stage", stage, 1, outcome[1])
    /\ UNCHANGED <<snapshots, pidx, ppc, summary, metrics, parseStore, llmCalls, cur>>
    /\ UNCHANGED <<itemVars, fetchVars, rateVars, runVars, clientVars, urlVars, storeVars>>

StageNext == StageStart \/ StageComplete

-----------------------------------------------------------------------------
(* core/ids.py normalize_url as a function of its input                    *)

\* the query parameters of a modelled URL
MaxParams == 2

\* "HTTPS://Acme.com"
UrlBase == <<"H","T","T","P","S",":","/","/","A","c","m","e",".","c","o","m">>
UrlPaths == {<<>>, <<"/">>, Careers \o <<"/">>, Careers \o <<"/", "/">>}
UrlFragments == {<<>>, <<"#","t","o","p">>}
\* names: plain ones, tracking ones in either case, one that is not in the list
ParamNames ==
    {<<"b">>, <<"a">>, <<"r","e","f">>, <<"U","T","M","_","S","o","u","r","c","e">>,
     <<"u","t","m","_","i","d">>}
\* values: empty, plain, repeated escapes of "&ref=1" and of "+"
ParamValues ==
    {<<>>, <<"1">>, <<"x","%","2","6","r","e","f","%","3","D","1">>, <<"a","%","2","B","b">>}
ParamLists == UNION {[1..n -> ParamNames \X ParamValues] : n \in 0..MaxParams}

\* name=value&name=value
RECURSIVE QueryOf(_)
QueryOf(params) ==
    IF params = <<>> THEN <<>>
    ELSE Head(params)[1] \o <<"=">> \o Head(params)[2]
         \o (IF Len(params) > 1 THEN <<"&">> ELSE <<>>) \o QueryOf(Tail(params))
UrlOf(path, params, fragment) ==
    UrlBase \o path \o (IF params = <<>> THEN <<>> ELSE <<"?">> \o QueryOf(params)) \o fragment
Urls == {UrlOf(path, params, fragment) :
            path \in UrlPaths, params \in ParamLists, fragment \in UrlFragments}

UrlIdle == upc = "idle" /\ rawUrl = <<>> /\ normUrl = <<>>

UrlInit == upc = "call" /\ rawUrl \in Urls /\ normUrl = <<>>

\* normalize_url(url)
Normalize ==
    /\ upc = "call"
    /\ normUrl' = normalize_url(rawUrl)
    /\ upc' = "done"
    /\ UNCHANGED <<rawUrl, parseVars, itemVars, fetchVars, rateVars, runVars, clientVars, stageVars,
                   storeVars>>

\* normalize_url(normalize_url(url)): the result is normalized again
NormalizeAgain ==
    /\ upc = "done"
    /\ rawUrl' = normUrl
    /\ normUrl' = normalize_url(normUrl)
    /\ upc' = "again"
    /\ UNCHANGED <<parseVars, itemVars, fetchVars, rateVars, runVars, clientVars, stageVars, storeVars>>

UrlNext == Normalize \/ NormalizeAgain

-----------------------------------------------------------------------------
(* evidence/snapshot.py FileSnapshotStore                                  *)

\* the callers of save()
MaxSavers == 2

RunIds == {"run1", "run2"}
\* result.content: the bytes of the response, empty when the fetch failed
Contents == {<<>>, <<"a">>, <<"b">>}

\* the task the snapshots handed to save() come from
AcmeTask ==
    from_source_config(SourceConfig("acme", "careers_page", UrlAcmeRaw, TRUE, SourcePolicies[1]))
\* collector.py lines 35-50: a RawSnapshot of a run for a fetch that returned these
\* bytes, or failed when there are none; snapshot_id stands for the uuid of
\* snapshot.py line 20, distinct per snapshot
StoredSnapshot(snapshot_id, run_id, content) ==
    [RawSnapshot(AcmeTask,
                 IF content = <<>> THEN FailureResult("RetryError", 0)
                 ELSE ResponseResult(200, 0),
                 snapshot_id) EXCEPT !.run_id = run_id]

StoreIdle == fs = <<>> /\ savers = <<>> /\ returned = <<>>

\* an empty base_dir and no call yet
StoreInit == fs = <<>> /\ savers = <<>> /\ returned = <<>>

\* the callers that have written their content and not yet their metadata see the
\* write of caller c
Witnessed(c) ==
    [d \in DOMAIN savers |->
        IF d # c /\ savers[d].pc = "meta"
        THEN [savers[d] EXCEPT !.during = @ \cup {c}] ELSE savers[d]]

\* store.save(snapshot, content) is called with a new snapshot
SaveEnter ==
    /\ Len(savers) < MaxSavers
    /\ \E run_id \in RunIds, content \in Contents :
          savers' = Append(savers,
                           [snapshot |-> StoredSnapshot(Len(savers) + 1, run_id, content),
                            content |-> content, pc |-> "content", during |-> {}])
    /\ UNCHANGED <<fs, returned>>
    /\ UNCHANGED <<parseVars, itemVars, fetchVars, rateVars, runVars, clientVars, stageVars, urlVars>>

\* save() writing the metadata file first, where lines 106-107 write the content
SaveMetadataFirstOf(c, path, written) ==
    IF written
    THEN /\ fs' = WriteFile(fs, MetaPath(savers[c].snapshot.run_id,
                                         savers[c].snapshot.snapshot_id),
                            model_dump([savers[c].snapshot EXCEPT !.content_path = path]))
         /\ savers' = [Witnessed(c) EXCEPT ![c].pc = "meta",
                                           ![c].snapshot.content_path = path]
    ELSE /\ savers' = [savers EXCEPT ![c].pc = "raised"]
         /\ UNCHANGED fs

\* snapshot.py lines 106-110: the content file is written and content_path set, or
\* the write raises
SaveContentOf(c, path, written) ==
    IF written
    THEN /\ fs' = WriteFile(fs, path, savers[c].content)
         /\ savers' = [Witnessed(c) EXCEPT ![c].pc = "meta",
                                           ![c].snapshot.content_path = path]
    ELSE /\ savers' = [savers EXCEPT ![c].pc = "raised"]
         /\ UNCHANGED fs
SaveContent(c) ==
    /\ savers[c].pc = "content"
    /\ \E written \in BOOLEAN :
          SaveContentOf(c, ContentPath(savers[c].snapshot.run_id,
                                       savers[c].snapshot.snapshot_id), written)
    /\ UNCHANGED returned
    /\ UNCHANGED <<parseVars, itemVars, fetchVars, rateVars, runVars, clientVars, stageVars, urlVars>>

\* snapshot.py lines 113-122: the metadata file is written and the snapshot
\* returned, or the write raises
SaveMetaOf(c, path, written) ==
    IF written
    THEN /\ fs' = WriteFile(fs, path, model_dump(savers[c].snapshot))
         /\ savers' = [Witnessed(c) EXCEPT ![c].pc = "done"]
         /\ returned' = (c :> savers[c].snapshot) @@ returned
    ELSE /\ savers' = [savers EXCEPT ![c].pc = "raised"]
         /\ UNCHANGED <<fs, returned>>
SaveMeta(c) ==
    /\ savers[c].pc = "meta"
    /\ \E written \in BOOLEAN :
          SaveMetaOf(c, MetaPath(savers[c].snapshot.run_id,
                                 savers[c].snapshot.snapshot_id), written)
    /\ UNCHANGED <<parseVars, itemVars, fetchVars, rateVars, runVars, clientVars, stageVars, urlVars>>

StoreNext ==
    \/ SaveEnter
    \/ \E c \in DOMAIN savers : SaveContent(c)
    \/ \E c \in DOMAIN savers : SaveMeta(c)

ApiIdle == StageIdle /\ UrlIdle /\ StoreIdle /\ ClientIdle

-----------------------------------------------------------------------------
(* Specifications                                                          *)

ParseSpecInit == ParseInit /\ ItemIdle /\ FetchIdle /\ RateIdle /\ RunIdle /\ ApiIdle
ItemSpecInit  == ParseIdle /\ ItemInit /\ FetchIdle /\ RateIdle /\ RunIdle /\ ApiIdle
FetchSpecInit == ParseIdle /\ ItemIdle /\ FetchInit /\ RateIdle /\ RunIdle /\ ApiIdle
RateSpecInit  == ParseIdle /\ ItemIdle /\ FetchIdle /\ RateInit /\ RunIdle /\ ApiIdle
RunSpecInit   == ParseIdle /\ ItemIdle /\ FetchIdle /\ RateIdle /\ RunInit /\ ApiIdle
StageSpecInit ==
    ParseIdle /\ ItemIdle /\ FetchIdle /\ RateIdle /\ StageInit /\ UrlIdle /\ StoreIdle /\ ClientIdle
UrlSpecInit ==
    ParseIdle /\ ItemIdle /\ FetchIdle /\ RateIdle /\ RunIdle /\ StageIdle /\ UrlInit /\ StoreIdle /\ ClientIdle
StoreSpecInit ==
    ParseIdle /\ ItemIdle /\ FetchIdle /\ RateIdle /\ RunIdle /\ StageIdle /\ UrlIdle /\ StoreInit /\ ClientIdle

\* the parse stage on a list of snapshots
ParseSpec == ParseSpecInit /\ [][ParseNext]_vars
\* one iteration of the parse loop, over every input
ItemSpec  == ItemSpecInit /\ [][ItemProcess]_vars
\* one call of HttpClient.fetch
FetchSpec == FetchSpecInit /\ [][FetchNext]_vars
\* one call of HttpClient.fetch that the event loop keeps running: every get()
\* returns or raises (the client has a timeout) and every sleep ends
FairFetchSpec == FetchSpec /\ WF_vars(FetchNext)

\* coroutines of one event loop calling acquire() on one shared RateLimiter
RateSpec == RateSpecInit /\ [][RateNext]_vars

\* an orchestrated run: boot, plan, collect and, for checkpoint B, parse
RunSpec == RunSpecInit /\ [][RunNext]_vars

\* start_stage and complete_stage called in any order on one booted RunContext
StageSpec == StageSpecInit /\ [][StageNext]_vars

\* normalize_url applied to a URL, and again to its result
UrlSpec == UrlSpecInit /\ [][UrlNext]_vars

\* callers of FileSnapshotStore.save on one base_dir, their writes interleaved
StoreSpec == StoreSpecInit /\ [][StoreNext]_vars

Init ==
    \/ ParseSpecInit \/ ItemSpecInit \/ FetchSpecInit \/ RateSpecInit \/ RunSpecInit
    \/ StageSpecInit \/ UrlSpecInit \/ StoreSpecInit
Next ==
    \/ ParseNext \/ ItemProcess \/ FetchNext \/ RateNext \/ RunNext \/ StageNext
    \/ UrlNext \/ StoreNext
Spec == Init /\ [][Next]_vars

-----------------------------------------------------------------------------
(* Properties of the parse stage                                           *)

\* the snapshots the loop has finished with
Processed == 1..(pidx - 1)
LogsOf(id) == {i \in DOMAIN summary.logs : summary.logs[i].snapshot_id = id}
ProfilesOf(id) == {i \in DOMAIN summary.profiles : summary.profiles[i].of = id}
Skippable(s) == ~s.success \/ s.source_type \notin ADAPTER_REGISTRY

\* C1: every processed snapshot whose success flag is false or whose source_type has
\* no registered adapter has a log, every log of it has status SKIPPED and carries a
\* warning, the completion API was never called for it, and no profile was added
\* for it.
C1_SkippedWithoutModelCall ==
    \A i \in Processed :
        LET s == snapshots[i] IN
        Skippable(s) =>
            /\ LogsOf(s.snapshot_id) # {}
            /\ \A j \in LogsOf(s.snapshot_id) :
                   /\ summary.logs[j].status = SKIPPED
                   /\ summary.logs[j].warnings # <<>>
            /\ \A k \in DOMAIN llmCalls : llmCalls[k] # s.snapshot_id
            /\ ProfilesOf(s.snapshot_id) = {}

\* C1 witness: the stage has finished a list holding a failed snapshot and a
\* successful snapshot of a source type without adapter.
C1_Witness ==
    /\ ppc = "done"
    /\ \E i \in Processed : ~snapshots[i].success
    /\ \E i \in Processed :
           snapshots[i].success /\ snapshots[i].source_type \notin ADAPTER_REGISTRY

\* C2: at every point of the loop the logs are exactly those of the snapshots
\* processed so far, one each and in input order; when the stage is done every input
\* snapshot has been processed and the saved parse log is that list.
C2_OneLogPerSnapshotInOrder ==
    /\ Len(summary.logs) = pidx - 1
    /\ \A i \in Processed : summary.logs[i].snapshot_id = snapshots[i].snapshot_id
    /\ ppc = "done" =>
           /\ pidx = Len(snapshots) + 1
           /\ parseStore.logs = summary.logs

\* C2 witness: a finished stage over two or more snapshots whose first two outcomes
\* differ (an early skip, then a model call).
C2_Witness ==
    /\ ppc = "done" /\ Len(snapshots) >= 2
    /\ summary.logs[1].status = SKIPPED
    /\ summary.logs[2].status \in {SUCCESS, PARTIAL, FAILED}
    /\ llmCalls = <<snapshots[2].snapshot_id>>

\* C8: when the stage is done, the stored profiles are as many as the logs with
\* status SUCCESS or PARTIAL: each snapshot so logged has exactly one profile, and
\* no other snapshot has one.
C8_ProfilesMatchSuccessAndPartialLogs ==
    ppc = "done" =>
        /\ Len(parseStore.profiles)
             = Cardinality({i \in DOMAIN parseStore.logs :
                               parseStore.logs[i].status \in {SUCCESS, PARTIAL}})
        /\ \A i \in DOMAIN parseStore.logs :
               LET l == parseStore.logs[i]
                   n == Cardinality({j \in DOMAIN parseStore.profiles :
                                        parseStore.profiles[j].of = l.snapshot_id})
               IN  IF l.status \in {SUCCESS, PARTIAL} THEN n = 1 ELSE n = 0

\* urllib's urlparse(url).hostname for a host that is not an IPv6 literal: the
\* netloc without its userinfo ("...@") and without its port (":..."), lower-cased
hostname(url) ==
    LET nl   == netloc(url)
        ats  == {i \in DOMAIN nl : nl[i] = "@"}
        from == IF ats = {} THEN 1 ELSE (CHOOSE i \in ats : \A j \in ats : i >= j) + 1
        hp   == SubSeq(nl, from, Len(nl))
        cols == {i \in DOMAIN hp : hp[i] = ":"}
        to   == IF cols = {} THEN Len(hp) ELSE (CHOOSE i \in cols : \A j \in cols : i <= j) - 1
    IN  Lower(SubSeq(hp, 1, to))
WithoutWww(host) == IF StartsWith(host, WWW) THEN SubSeq(host, 5, Len(host)) ELSE host

\* C6: every profile the stage has stored has domain equal to the host of its
\* snapshot's canonical URL without a leading "www.", website equal to the canonical
\* URL, and company_id equal to slugify(name) + "-" + slugify(domain).
C6_DeterministicIdentityFields ==
    ppc = "done" =>
        \A j \in DOMAIN parseStore.profiles :
            LET p   == parseStore.profiles[j].p
                url == snapshots[parseStore.profiles[j].of].canonical_url
            IN  /\ p.domain = WithoutWww(hostname(url))
                /\ p.website = url
                /\ p.company_id = slugify(p.name) \o <<"-">> \o slugify(p.domain)

\* the last snapshot the loop has finished with, and whether its content was missing
LastProcessed == snapshots[pidx - 1]
ContentWasMissing ==
    /\ ppc \in {"loop", "done"} /\ pidx > 1
    /\ Consults(LastProcessed) /\ ~cur.content

\* C31: when the store has no content for a successful snapshot with a registered
\* adapter, the snapshot's log has status FAILED with the content-missing error, the
\* completion API is not called for it and no profile is added for it.
C31_MissingContentIsFailedWithoutModelCall ==
    ContentWasMissing =>
        LET id == LastProcessed.snapshot_id IN
        /\ LogsOf(id) = {pidx - 1}
        /\ summary.logs[pidx - 1].status = FAILED
        /\ summary.logs[pidx - 1].errors = <<Warn("Could not load snapshot content", 0)>>
        /\ \A k \in DOMAIN llmCalls : llmCalls[k] # id
        /\ ProfilesOf(id) = {}

\* C31 witness: the content of the second snapshot is missing after the first one
\* went through a completion call.
C31_Witness ==
    /\ ContentWasMissing /\ pidx = 3
    /\ llmCalls = <<snapshots[1].snapshot_id>>

\* the completion call of the last snapshot the loop has finished with raised
ModelRaised ==
    /\ ppc \in {"loop", "done"} /\ pidx > 1
    /\ Consults(LastProcessed) /\ cur.content /\ cur.adapter_ok /\ cur.llm.exc

\* C32: when the completion call raises, no profile is kept for the snapshot, its
\* log has status FAILED with an error carrying the exception's message, and the
\* completion API was called exactly once for it.
C32_ModelCallExceptionIsFailedWithMessage ==
    ModelRaised =>
        LET id == LastProcessed.snapshot_id IN
        /\ ProfilesOf(id) = {}
        /\ summary.logs[pidx - 1].status = FAILED
        /\ \E k \in DOMAIN summary.logs[pidx - 1].errors :
               summary.logs[pidx - 1].errors[k].msg = "LLM call failed: " \o cur.llm.message
        /\ Cardinality({k \in DOMAIN llmCalls : llmCalls[k] = id}) = 1

\* C32 witness: the call for the second snapshot raised with the message "rate
\* limit" after the call for the first one had succeeded.
C32_Witness ==
    /\ ModelRaised /\ pidx = 3 /\ cur.llm.message = "rate limit"
    /\ summary.logs[1].status = SUCCESS

\* C37: when the parse stage is done, metrics.num_parse_success equals num_success +
\* num_partial of the summary, and metrics.num_parse_failed equals num_failed,
\* which is the number of logs with status FAILED.
C37_MetricsAgreeWithSummary ==
    ppc = "done" =>
        /\ metrics.num_parse_success = summary.num_success + summary.num_partial
        /\ metrics.num_parse_failed = summary.num_failed
        /\ summary.num_failed
             = Cardinality({i \in DOMAIN summary.logs : summary.logs[i].status = FAILED})

-----------------------------------------------------------------------------
(* Properties of one iteration                                             *)

\* the iteration has run and reached the completion call, which returned
ModelAnswered ==
    /\ itemOut # NoOut /\ itemOut # IdleOut
    /\ Consults(item.snapshot) /\ item.env.content /\ item.env.adapter_ok
    /\ ~item.env.llm.exc

\* C3: whenever the response fails the strict decode/validation and the salvage
\* attempt fails too, the log has status FAILED and no profile is returned.
C3_UnsalvageableIsFailed ==
    ( /\ ModelAnswered
      /\ ~StrictOk(item.env.llm.raw)
      /\ ~SalvageOk(item.env.llm.raw, item.env.hint, item.snapshot.canonical_url) )
    => /\ itemOut.log.status = FAILED
       /\ itemOut.profile = NoProfile

\* C4: when the model returns non-empty text that is not JSON and the content block
\* carries a company hint, the outcome is status PARTIAL with a profile whose
\* confidence is at most 0.3 and whose company_id is not empty.
C4_InvalidJsonWithHintIsPartialProfile ==
    ( /\ ModelAnswered
      /\ item.env.llm.raw.kind = "garbage"
      /\ item.env.hint.k = "str" /\ item.env.hint.s # <<>> )
    => /\ itemOut.log.status = PARTIAL
       /\ itemOut.profile # NoProfile
       /\ PyLe(itemOut.profile.confidence, Num(SalvageCap))
       /\ itemOut.profile.company_id # <<>>

\* C5: every profile produced through the salvage path (status PARTIAL with a
\* profile) has confidence <= 0.3, whatever confidence the model reported.
C5_SalvagedConfidenceCapped ==
    ( /\ ModelAnswered
      /\ itemOut.log.status = PARTIAL
      /\ itemOut.profile # NoProfile )
    => PyLe(itemOut.profile.confidence, Num(SalvageCap))

AcmeCom == <<"a","c","m","e",".","c","o","m">>
AcmeIncAcmeCom == <<"a","c","m","e","-","i","n","c","-","a","c","m","e","-","c","o","m">>

\* C7: for a snapshot whose canonical URL has host acme.com and a response object
\* with name "Acme Inc", no domain key and otherwise acceptable keys, the iteration
\* yields a profile with domain "acme.com" and company_id "acme-inc-acme-com".
C7_AcmeScenario ==
    ( /\ ModelAnswered
      /\ item.snapshot.canonical_url = UrlAcme
      /\ item.env.llm.raw.kind = "object"
      /\ item.env.llm.raw.obj["name"] = JStr(AcmeInc)
      /\ item.env.llm.raw.obj["domain"] = JAbsent
      /\ item.env.llm.raw.obj["confidence"].k # "bad"
      /\ item.env.llm.raw.obj["tags"].k # "bad" )
    => /\ itemOut.profile # NoProfile
       /\ itemOut.profile.domain = AcmeCom
       /\ itemOut.profile.company_id = AcmeIncAcmeCom

-----------------------------------------------------------------------------
(* Properties of HttpClient.fetch                                          *)

\* an HTTP response was received: some attempt returned one
GotResponse == \E i \in DOMAIN attempts : attempts[i].exc = "none"
\* the fetch failed: no attempt was made (client not initialised), or the last
\* attempt raised, or it returned a status outside 2xx
FetchFailed ==
    \/ attempts = <<>>
    \/ attempts[Len(attempts)].exc # "none"
    \/ ~(attempts[Len(attempts)].status \in 200..299)

\* C9: fetch never raises; when it has returned, there is a FetchResult, every
\* failure (timeout, network error, exhausted retries, client not initialised,
\* non-2xx status) has success = FALSE, and status_code is 0 exactly when no HTTP
\* response was received.
C9_FetchNeverRaises ==
    /\ fpc # "raised"
    /\ fpc = "done" =>
           /\ fetchResult # NoResult
           /\ FetchFailed => ~fetchResult.success
           /\ (fetchResult.status_code = 0) <=> ~GotResponse

\* C9 witness: a fetch that returned after its retries were exhausted.
C9_Witness ==
    /\ fpc = "done" /\ Len(attempts) >= 2
    /\ ~GotResponse
    /\ fetchResult # NoResult /\ fetchResult.error = "RetryError"

\* C10: the retry_count of the returned FetchResult is the number of retries the
\* fetch performed, that is the attempts made minus one (none when no attempt was
\* made).
C10_RetryCountIsRetriesPerformed ==
    (fpc = "done" /\ fetchResult # NoResult) =>
        fetchResult.retry_count = (IF attempts = <<>> THEN 0 ELSE Len(attempts) - 1)

\* the first attempt returned a response whose status is outside 2xx
FirstAttemptErrorStatus ==
    /\ attempts # <<>>
    /\ attempts[1].exc = "none" /\ ~IsSuccess(attempts[1].status)

\* C11: a fetch whose first attempt returns a response with a non-2xx status makes
\* no further attempt and sleeps no backoff, and once it has returned its result
\* carries that status with success = FALSE.
C11_ErrorStatusIsNotRetried ==
    FirstAttemptErrorStatus =>
        /\ Len(attempts) = 1 /\ waits = <<>>
        /\ fpc = "done"
        /\ fetchResult # NoResult
        /\ fetchResult.status_code = attempts[1].status
        /\ ~fetchResult.success

\* C11 witness: a client allowed several attempts returned after one HTTP 500.
C11_Witness ==
    /\ fpc = "done" /\ client.max_retries >= 3
    /\ attempts = <<Resp(500)>>
    /\ fetchResult # NoResult /\ fetchResult.status_code = 500

\* every attempt made so far timed out or hit a network error
AllAttemptsTransient ==
    \A i \in DOMAIN attempts : attempts[i].exc \in {"TimeoutException", "NetworkError"}

\* the attempts stay within max_retries, one sleep separates two successive attempts,
\* each sleep is longer than the one before until the cap is reached, and a fetch
\* that has returned after only transient failures returned a failed FetchResult
C12_BoundedBackoff ==
    /\ Len(attempts) <= client.max_retries
    /\ Len(waits) <= client.max_retries - 1
    /\ Len(waits) = (IF attempts = <<>> THEN 0
                     ELSE IF fpc = "try" THEN Len(attempts) ELSE Len(attempts) - 1)
    /\ \A i \in DOMAIN waits :
           /\ WaitMin <= waits[i] /\ waits[i] <= WaitMax
           /\ i > 1 => (waits[i] > waits[i-1] \/ waits[i] = WaitMax)
    /\ (fpc = "done" /\ attempts # <<>> /\ AllAttemptsTransient) =>
           /\ Len(attempts) = client.max_retries
           /\ fetchResult # NoResult /\ ~fetchResult.success
           /\ fetchResult.status_code = 0

\* C12: a fetch makes at most max_retries attempts (at most max_retries - 1
\* retries), its backoff delays increase strictly up to the cap, a fetch whose every
\* attempt was a timeout or network error ends with a failed FetchResult, and every
\* fetch eventually returns.
C12_TransientFailuresRetryBoundedThenFail == []C12_BoundedBackoff /\ <>(fpc = "done")

\* C12 witness: six attempts all timed out or lost the network, the delays reached
\* the cap, and the fetch returned the failure.
C12_Witness ==
    /\ fpc = "done" /\ client.max_retries = 6 /\ Len(attempts) = 6
    /\ AllAttemptsTransient
    /\ waits = <<1, 2, 4, 8, 10>>
    /\ fetchResult # NoResult /\ fetchResult.error = "RetryError"

\* C33: a fetch acquires the rate limiter exactly once, before its first HTTP
\* attempt; the retries of the same fetch do not acquire again.
C33_OneAcquireBeforeFirstAttempt ==
    /\ fpc = "idle" => acquires = 0 /\ attempts = <<>>
    /\ fpc # "idle" => acquires = 1

\* C33 witness: a fetch that has returned after three attempts.
C33_Witness == fpc = "done" /\ Len(attempts) = 3 /\ Len(waits) = 2 /\ acquires = 1

-----------------------------------------------------------------------------
(* Properties of RateLimiter.acquire                                       *)

\* two successive returns of acquire() are at least 1/rate apart: the gap in ticks,
\* times the rate, is at least the ticks of one second
Paced ==
    \A i \in DOMAIN permits :
        i > 1 => (permits[i] - permits[i-1]) * limiter.rate >= TicksPerSecond

\* C13: with rate > 0 and never two acquire() calls in progress at once, any two
\* consecutive returns are at least 1/rate apart; with rate <= 0 no caller is ever
\* suspended and _last_request keeps its initial value.
C13_SequentialCallsArePaced ==
    /\ (limiter.rate > 0 /\ ~overlapped) => Paced
    /\ limiter.rate <= 0 =>
           /\ limiter.last_request = 0
           /\ \A c \in DOMAIN racq : racq[c].pc = "out"

\* C13 witness: with a positive rate, three calls made one at a time have returned,
\* the second of them after a sleep.
C13_Witness ==
    /\ limiter.rate > 0 /\ ~overlapped
    /\ Len(permits) = 3
    /\ permits[2] - permits[1] = MinInterval(limiter.rate)

\* C14: with rate > 0, any two consecutive returns of acquire() are at least 1/rate
\* apart, also when the calls of several coroutines overlap.
C14_ConcurrentCallsArePaced == limiter.rate > 0 => Paced

-----------------------------------------------------------------------------
(* Properties of the collect stage and of the orchestrated run             *)

\* C15: when collect has returned, it returns and has saved exactly one snapshot
\* per task, in task order, and the snapshot of every failed fetch has success =
\* FALSE and the status_code and error of the FetchResult.
C15_OneSnapshotPerTask ==
    cpc = "done" =>
        /\ Len(collected) = Len(tasks)
        /\ Len(snapStore) = Len(tasks)
        /\ collected = snapStore
        /\ \A i \in DOMAIN tasks :
               /\ snapStore[i].source_id = tasks[i].source_id
               /\ \A j \in DOMAIN snapStore :
                      snapStore[j].snapshot_id = snapStore[i].snapshot_id => j = i
               /\ ~fetched[i].success =>
                      /\ ~snapStore[i].success
                      /\ snapStore[i].status_code = fetched[i].status_code
                      /\ snapStore[i].error = fetched[i].error

\* C15 witness: collect returned after two tasks, the first fetch having failed
\* without a response and the second with HTTP 500.
C15_Witness ==
    /\ cpc = "done" /\ Len(tasks) = 2
    /\ fetched = <<FailureResult("RetryError", 0), ResponseResult(500, 0)>>

\* the fetch returned a response whose status is outside 2xx
ErrorStatus(result) == result.error = "none" /\ ~result.success

\* C16: in a checkpoint-B run with at least one task and no storage failure, if every
\* fetch returned an HTTP error status the run returns with status COMPLETED; and
\* in every checkpoint-B run that has returned, each fetch with an HTTP error status
\* has a snapshot with success = FALSE and that status code, exactly one parse log,
\* which is SKIPPED with a warning carrying the status code, and no profile.
C16_HttpErrorsStillComplete ==
    /\ ( /\ checkpoint = "B" /\ rpc \in {"returned", "raised"}
         /\ tasks # <<>> /\ faults = {}
         /\ \A i \in DOMAIN fetched : ErrorStatus(fetched[i]) )
       => /\ rpc = "returned"
          /\ run.status = COMPLETED
          /\ Len(fetched) = Len(tasks)
    /\ (checkpoint = "B" /\ rpc = "returned" /\ tasks # <<>>) =>
           \A i \in DOMAIN fetched :
               ErrorStatus(fetched[i]) =>
                   /\ ~snapshots[i].success
                   /\ snapshots[i].status_code = fetched[i].status_code
                   /\ Cardinality(LogsOf(snapshots[i].snapshot_id)) = 1
                   /\ \A j \in LogsOf(snapshots[i].snapshot_id) :
                          /\ summary.logs[j].status = SKIPPED
                          /\ \E k \in DOMAIN summary.logs[j].warnings :
                                 summary.logs[j].warnings[k].code = fetched[i].status_code
                   /\ ProfilesOf(snapshots[i].snapshot_id) = {}

\* C16 witness: a checkpoint-B run over two tasks whose fetches both returned HTTP
\* 500 has returned.
C16_Witness ==
    /\ checkpoint = "B" /\ rpc = "returned" /\ Len(tasks) = 2
    /\ \A i \in DOMAIN fetched : fetched[i] = ResponseResult(500, 0)
    /\ Len(summary.logs) = 2

\* C17: neither the collect stage nor the parse stage is ever left by an exception
\* of one of its items.
C17_ItemFailureNeverAbortsBatch == cpc # "raised" /\ ppc # "raised"

\* an exception has left a stage, or the construction of a store between two stages
StageRaised ==
    \/ faults \cap {"snapshot_store_init", "snapshot_save", "parse_store_init"} # {}
    \/ ppc = "raised"

\* C18: a run in which a stage raised never returns normally, and once the handler
\* has raised again the run has status FAILED and completed_at is stamped; a run that
\* failed is one in which a stage raised.
C18_RaisingRunIsFailedAndPropagates ==
    /\ StageRaised => rpc # "returned"
    /\ rpc = "raised" =>
           /\ StageRaised
           /\ run.status = RUN_FAILED
           /\ run.completed_at = "stamped"
    /\ (run # NoRun /\ run.status = RUN_FAILED) => rpc = "raised"

\* C18 witness: runs of both checkpoints have raised, here checkpoint B after an
\* adapter error in the parse stage that followed a completed collect stage.
C18_Witness ==
    /\ checkpoint = "B" /\ rpc = "raised" /\ ppc = "raised" /\ cpc = "done"
    /\ run.status = RUN_FAILED

\* the stage log carries the text of an unhandled exception
Annotated(log) ==
    \E k \in DOMAIN log.errors :
        log.errors[k] \in {RunError("OSError: directory"), RunError("OSError: snapshot"),
                           RunError("adapter error")}

\* C19: when a run has failed with an unhandled exception, some stage log carries
\* its text and every stage log that carries it is open (not completed).
C19_ErrorGoesToOpenStageLog ==
    rpc = "raised" =>
        /\ \E i \in DOMAIN stage_logs : Annotated(stage_logs[i])
        /\ \A i \in DOMAIN stage_logs : Annotated(stage_logs[i]) => stage_logs[i].open

\* C20: a failed write of the configuration snapshot does not abort the run: boot
\* has returned a context and the orchestrator goes on.
C20_ConfigWriteFailureDoesNotAbort ==
    "config_write" \in faults => (run # NoRun /\ rpc # "boot_raised")

\* the log of the collect stage, the second of the run
CollectLog == stage_logs[2]

\* C38: when collect has returned, the success and failure counters of the metrics
\* add up to the number of returned snapshots, which is the items_out of the collect
\* log and the number of tasks; the log has one error per snapshot of a failed fetch;
\* and as soon as a snapshot was stored the status of the log is 'completed'
\* ('failed' only when none was).
C38_CollectCountersAgree ==
    (rpc = "collect" /\ cpc = "done") =>
        /\ CollectLog.stage = "collect"
        /\ metrics.num_snapshots_success + metrics.num_snapshots_failed = Len(collected)
        /\ metrics.num_snapshots_failed
             = Cardinality({i \in DOMAIN collected : ~collected[i].success})
        /\ CollectLog.items_out = Len(collected)
        /\ Len(collected) = Len(tasks)
        /\ Len(CollectLog.errors)
             = Cardinality({i \in DOMAIN collected : ~collected[i].success})
        /\ snapStore # <<>> => CollectLog.status = "completed"
        /\ CollectLog.status = "failed" => snapStore = <<>>

\* C38 witness: collect has returned two snapshots, one of a successful fetch and
\* one of a fetch that failed.
C38_Witness ==
    /\ rpc = "collect" /\ cpc = "done" /\ Len(collected) = 2
    /\ collected[1].success /\ ~collected[2].success
    /\ Len(CollectLog.errors) = 1

StageOrder == <<"plan_sources", "collect", "parse">>
\* the stage log with that name exists and is closed
Closed(stage) ==
    \E i \in DOMAIN stage_logs : stage_logs[i].stage = stage /\ ~stage_logs[i].open

\* C34: in a checkpoint-B run the stage logs are those of plan_sources, collect and
\* parse in this order, every log but the last one is closed (a stage's log is
\* closed before the next one is opened, so at most one is open), no fetch has
\* returned unless the plan_sources log is closed, and no completion call was made
\* unless the collect log is closed.
C34_StagesRunOneAfterTheOther ==
    checkpoint = "B" =>
        /\ Len(stage_logs) <= 3
        /\ \A i \in DOMAIN stage_logs : stage_logs[i].stage = StageOrder[i]
        /\ \A i \in DOMAIN stage_logs : i < Len(stage_logs) => ~stage_logs[i].open
        /\ Cardinality({i \in DOMAIN stage_logs : stage_logs[i].open}) <= 1
        /\ fetched # <<>> => Closed("plan_sources")
        /\ llmCalls # <<>> => Closed("plan_sources") /\ Closed("collect")

\* C34 witness: the parse stage of a checkpoint-B run is open after a completion
\* call, behind the closed logs of plan_sources and collect.
C34_Witness ==
    /\ checkpoint = "B" /\ rpc = "parse" /\ ppc = "loop"
    /\ Len(stage_logs) = 3 /\ stage_logs[3].open
    /\ llmCalls # <<>> /\ Len(fetched) = 2

Terminal(r) == r # NoRun /\ r.status \in {COMPLETED, RUN_FAILED}

\* C35: whenever the status of the run is COMPLETED or FAILED, every stage log is
\* closed and its status is not 'running'.
C35_TerminalRunHasNoOpenStageLog ==
    Terminal(run) =>
        \A i \in DOMAIN stage_logs :
            ~stage_logs[i].open /\ stage_logs[i].status # "running"

\* C36: complete_run is called exactly once in a run: the status only changes from
\* RUNNING to COMPLETED or from RUNNING to FAILED, a terminal context is never
\* touched again, completed_at is stamped exactly when the status is terminal, and
\* an orchestrator that has returned or raised has left a terminal status.
C36_CompleteRunExactlyOnce ==
    [][ /\ Terminal(run) => run' = run
        /\ (run # NoRun /\ run' # run) => (run.status = RUNNING /\ Terminal(run'))
        /\ run' # NoRun => (run'.completed_at = "stamped" <=> Terminal(run'))
        /\ rpc' \in {"returned", "raised"} => Terminal(run') ]_vars

\* C36 witness: a checkpoint-A run that returned early because nothing was planned.
C36_Witness ==
    /\ checkpoint = "A" /\ rpc = "returned" /\ tasks = <<>> /\ sources # <<>>
    /\ run.status = COMPLETED /\ run.completed_at = "stamped"

-----------------------------------------------------------------------------
(* Properties of start_stage / complete_stage                              *)

\* the most recently started of a set of logs: start_stage appends, so the last one
LastOf(open) == CHOOSE i \in open : \A j \in open : j <= i

\* C21: when several logs of one stage name are open, complete_stage(name, ...)
\* closes the most recently started of them, with the items_out and status of the
\* call, and leaves the earlier open logs of that name open.
C21_CompleteClosesMostRecentOpen ==
    LET open == OpenLogs(stageCall.before, stageCall.stage) IN
    (stageCall.op = "complete_stage" /\ Cardinality(open) >= 2) =>
        /\ ~stage_logs[LastOf(open)].open
        /\ stage_logs[LastOf(open)].items_out = stageCall.items
        /\ stage_logs[LastOf(open)].status = stageCall.status
        /\ \A i \in open \ {LastOf(open)} : stage_logs[i].open

\* C22: after any sequence of start_stage and complete_stage calls, at most one
\* stage log per stage name is open.
C22_AtMostOneOpenLogPerStage ==
    \A stage \in StageNames : Cardinality(OpenLogs(stage_logs, stage)) <= 1

\* C23: complete_stage(name, ...) with no open log of that name (never started, or
\* already closed) leaves every stage log and the run status as they were.
C23_CompleteWithoutOpenLogIsNoOp ==
    (stageCall.op = "complete_stage" /\ OpenLogs(stageCall.before, stageCall.stage) = {}) =>
        /\ stage_logs = stageCall.before
        /\ run = stageCall.run_before

\* complete_stage was called for a stage whose only log was already closed, next to
\* an open log of another stage
C23_Witness ==
    /\ stageCall.op = "complete_stage"
    /\ OpenLogs(stageCall.before, stageCall.stage) = {}
    /\ \E i \in DOMAIN stageCall.before : stageCall.before[i].stage = stageCall.stage
    /\ \E i \in DOMAIN stageCall.before : stageCall.before[i].open

-----------------------------------------------------------------------------
(* Properties of normalize_url                                             *)

\* C26: normalize_url is idempotent: normalizing the result of normalize_url gives
\* that result again.
C26_NormalizeIdempotent == upc = "again" => normUrl = rawUrl

\* the parameter names of a query string, as written
QueryNames(qs) ==
    {Lower(Before(f, {"="})) : f \in Range(SelectSeq(Split(qs, "&"), LAMBDA g : g # <<>>))}
UtmPrefix == <<"u","t","m","_">>
IsTracking(name) ==
    \/ StartsWith(name, UtmPrefix)
    \/ name \in {<<"f","b","c","l","i","d">>, <<"g","c","l","i","d">>, <<"r","e","f">>}

\* C27: the query string of a URL returned by normalize_url has no parameter whose
\* name starts with utm_ or is fbclid, gclid or ref, in any letter case.
C27_NoTrackingParameterRemains ==
    upc = "done" => \A name \in QueryNames(UrlQuery(normUrl)) : ~IsTracking(name)

-----------------------------------------------------------------------------
(* Properties of plan_sources                                              *)

\* plan_sources has returned its tasks to the orchestrator
Planned == rpc \notin {"boot", "boot_raised", "plan"}
\* the enabled sources among the first i
EnabledUpTo(i) == Cardinality({j \in 1..i : sources[j].enabled})

\* C24: plan_sources returns one FetchTask per enabled source and none for a
\* disabled one, in the order of the configuration, and the original_url of each
\* task is the configured URL of its source, unchanged.
C24_OneTaskPerEnabledSourceInOrder ==
    Planned =>
        /\ Len(tasks) = EnabledUpTo(Len(sources))
        /\ \A i \in DOMAIN sources :
              sources[i].enabled =>
                  /\ tasks[EnabledUpTo(i)].source_id = sources[i].source_id
                  /\ tasks[EnabledUpTo(i)].original_url = sources[i].url

\* two enabled sources with different URLs have been planned
C24_Witness ==
    /\ Planned
    /\ Len(sources) = 2 /\ Len(tasks) = 2
    /\ sources[1].url # sources[2].url

\* C25: the url of every planned FetchTask is the normalized form of the configured
\* URL ("https://acme.com/careers" for either spelling of the Acme careers page),
\* and the snapshot stored for a successful fetch has that canonical_url.
C25_TaskUrlIsNormalized ==
    Planned =>
        /\ \A k \in DOMAIN tasks : tasks[k].url = UrlAcme
        /\ \A i \in DOMAIN snapStore :
              snapStore[i].success => snapStore[i].canonical_url = UrlAcme

-----------------------------------------------------------------------------
(* Properties of FileSnapshotStore                                         *)

\* C28: once save(snapshot, content) has returned, and whatever saves of other
\* snapshots follow, get_content(snapshot_id) returns the saved bytes and
\* get_metadata(snapshot_id) the snapshot save returned, with content_path set.
C28_SavedSnapshotIsRetrievable ==
    \A c \in DOMAIN returned :
        /\ get_content(fs, returned[c].snapshot_id) = {savers[c].content}
        /\ get_metadata(fs, returned[c].snapshot_id) = {returned[c]}
        /\ returned[c].content_path # <<>>

\* two saves with different contents have returned, one after the other
C28_Witness ==
    /\ DOMAIN returned = {1, 2}
    /\ savers[1].content # savers[2].content
    /\ savers[1].during = {} /\ savers[2].during = {}

\* the files base_dir holds for a snapshot_id
FilesOf(snapshot_id, suffix) == {q \in DOMAIN fs : q[2] = snapshot_id /\ q[3] = suffix}
\* the files of the snapshot of caller c are those its own writes have made
OwnArtifacts(saver) ==
    /\ saver.pc = "content" =>
           FilesOf(saver.snapshot.snapshot_id, "content") = {}
    /\ saver.pc \in {"content", "meta"} =>
           FilesOf(saver.snapshot.snapshot_id, "meta.json") = {}
    /\ saver.pc \in {"meta", "done"} =>
           fs[saver.snapshot.content_path] = saver.content
    /\ saver.pc = "done" =>
           {fs[q] : q \in FilesOf(saver.snapshot.snapshot_id, "meta.json")}
               = {model_dump(saver.snapshot)}

\* C29: when save calls with distinct snapshot_ids run concurrently, in every
\* interleaving of their writes each snapshot has the content and the metadata of
\* its own call and no call has altered the files of another.
C29_ConcurrentSavesDoNotInterfere ==
    \A c \in DOMAIN savers : OwnArtifacts(savers[c])

\* two saves into one run directory have returned, and one wrote between the
\* content write and the metadata write of the other
C29_Witness ==
    \E c, d \in DOMAIN savers :
        /\ savers[c].pc = "done" /\ savers[d].pc = "done"
        /\ d \in savers[c].during
        /\ savers[c].snapshot.run_id = savers[d].snapshot.run_id
        /\ savers[c].content # savers[d].content

\* the snapshot_ids of the calls so far
SavedIds == {savers[c].snapshot.snapshot_id : c \in DOMAIN savers}

\* C40: at every point of every interleaving of save calls, including after a save
\* that raised between or inside its two writes, a snapshot_id for which
\* get_metadata returns a snapshot has content that get_content returns, and every
\* snapshot list_by_run returns has its content file in the store.
C40_MetadataImpliesContent ==
    /\ \A id \in SavedIds :
           get_metadata(fs, id) # {} => get_content(fs, id) # {}
    /\ \A run_id \in RunIds :
           \A s \in list_by_run(fs, run_id) :
               /\ get_content(fs, s.snapshot_id) # {}
               /\ s.content_path \in DOMAIN fs

\* C40 witness: a reader sees one snapshot complete, a second whose content is
\* written and whose metadata is not yet: list_by_run returns only the first.
C40_Witness ==
    \E c, d \in DOMAIN savers :
        /\ savers[c].pc = "done" /\ savers[d].pc \in {"meta", "raised"}
        /\ savers[c].snapshot.run_id = savers[d].snapshot.run_id
        /\ get_content(fs, savers[d].snapshot.snapshot_id) # {}
        /\ get_metadata(fs, savers[d].snapshot.snapshot_id) = {}
        /\ list_by_run(fs, savers[c].snapshot.run_id) = {savers[c].snapshot}

-----------------------------------------------------------------------------
(* Properties of the snapshot store in a run                               *)

\* C30: a snapshot that save() has stored stays as it was saved for the rest of the
\* run: through the rest of collect, through parse and at the end of the run, also
\* when the stage or the run aborts, its content and its metadata are retrievable
\* and are those of the save.
C30_SavedSnapshotsAreRetained ==
    \A i \in DOMAIN snapStore :
        /\ get_content(fs, snapStore[i].snapshot_id) = {ContentOf(fetched[i])}
        /\ get_metadata(fs, snapStore[i].snapshot_id) = {snapStore[i]}

\* collect saved a snapshot, then the save of the next one raised and the run was
\* marked failed
C30_Witness ==
    /\ rpc = "raised" /\ cpc = "raised"
    /\ snapStore # <<>>
    /\ DOMAIN fs # {}

====
